---- MODULE Spec2Model ----
(***************************************************************************)
(* Model of the exploration / map-fusion / rescue pipeline of si_atv_2.    *)
(*                                                                         *)
(* The module holds several specifications over one set of variables, one  *)
(* per component:                                                          *)
(*   SpecMerge    - agents/map_sync.py      MapSynchronizer.merge          *)
(*   SpecExplorer - agents/explorer_agent.py ExplorerAgent.deliberate      *)
(*   SpecEndToEnd - the same, ample time budget, fair scheduling           *)
(*   SpecBarrier  - sma/tarefa2             ExplorerDFS + MissionCoordinator*)
(*   SpecBarrierFair - the same under fair scheduling of the explorers     *)
(*   SpecRescuer  - agents/rescuer_agent.py RescuerAgent.deliberate        *)
(*   SpecUnify    - analysis/merge_maps.py  unify_maps                     *)
(*   SpecPath     - agents/rescuer_agent.py RescuerAgent._find_path        *)
(*   SpecMission  - sma/tarefa2/rescuer.py  RescuerMaster / RescuerWorker   *)
(*   SpecCsv      - agents/map_structures.py write_map_csv / read_map_csv  *)
(*   SpecStale    - ExplorerAgent with cells the probe wrongly shows clear *)
(*   SpecShifting - RescuerAgent with a corridor that may close            *)
(*   SpecUnifyVictims - unify_maps, the victim fields of the cells         *)
(*   SpecAgents   - an ExplorerAgent run followed by the RescuerAgents      *)
(*   SpecExplorerFair - SpecExplorer under a scheduler that keeps calling   *)
(*   SpecShiftingFair - SpecShifting under such a scheduler                 *)
(*   SpecRough    - SpecBarrier on a grid with walls and a costly base    *)
(*   SpecFinalize - MissionCoordinator._finalize_reports on any reports    *)
(* A specification leaves the variables of the other components at their   *)
(* idle values.                                                            *)
(***************************************************************************)
EXTENDS Integers, Sequences, FiniteSets, TLC

VARIABLES
    \* ---- MapSynchronizer.merge (agents/map_sync.py)
    local_maps,     \* the Iterable[AgentLocalMap] handed to merge
    unified,        \* <<the UnifiedMap merge returned>>, <<>> before the call
    \* ---- ExplorerAgent (agents/explorer_agent.py) and its environment
    env,            \* the scenario: walls, time limit (fixed during a run)
    ex,             \* the ExplorerAgent object's fields
    rtime,          \* the environment's remaining time of the explorer
    body,           \* the agent's true position in the environment
    state,          \* the state set through set_state
    trace,          \* what the last deliberate call did (return value, walks, reads)
    \* ---- ExplorerDFS / MissionCoordinator / RescuerMaster (sma/tarefa2)
    arena,          \* their environment: the victim's cell, each explorer's
                    \* remaining time, and who is still scheduled
    dfs,            \* one record per ExplorerDFS
    coord,          \* MissionCoordinator fields
    master,         \* RescuerMaster fields
    workers,        \* one record per RescuerWorker
    mission,        \* the master's deliberate call: the order rng.shuffle gave,
                    \* the clusters and assignments made, the ones processed
    \* ---- RescuerAgent (agents/rescuer_agent.py)
    shared_map,     \* the UnifiedMap handed to every RescuerAgent
    resc,           \* one record per RescuerAgent
    world,          \* the rescuers' environment: the true walls and victims,
                    \* each rescuer's remaining time, body and schedule
    \* ---- unify_maps (analysis/merge_maps.py)
    maps3,          \* three input MapGrids A, B, C
    uni,            \* the statuses unify_maps assigned, per order and grouping
    \* ---- RescuerAgent._find_path called alone
    fp_in,          \* working map, start, goal
    fp_out,         \* the returned path (NoPath before the call)
    \* ---- write_map_csv / read_map_csv (agents/map_structures.py)
    csv             \* a MapGrid, the file written from it, the MapGrid read back

mergeVars == <<local_maps, unified>>
explVars  == <<env, ex, rtime, body, state, trace>>
barrVars  == <<arena, dfs, coord, master, workers, mission>>
rescVars  == <<shared_map, resc, world>>
unifyVars == <<maps3, uni>>
pathVars  == <<fp_in, fp_out>>
csvVars   == <<csv>>
vars == <<local_maps, unified, env, ex, rtime, body, state, trace, arena, dfs,
          coord, master, workers, mission, shared_map, resc, world, maps3, uni, fp_in, fp_out,
          csv>>

Idle == <<>>

IdleMerge == local_maps = Idle /\ unified = Idle
IdleExpl  == env = Idle /\ ex = Idle /\ rtime = 0 /\ body = Idle /\ state = Idle
             /\ trace = Idle
IdleBarr  == arena = Idle /\ dfs = Idle /\ coord = Idle /\ master = Idle
             /\ workers = Idle /\ mission = Idle
IdleResc  == shared_map = Idle /\ resc = Idle /\ world = Idle
IdleUnify == maps3 = Idle /\ uni = Idle
IdlePath  == fp_in = Idle /\ fp_out = Idle
IdleCsv   == csv = Idle

(***************************************************************************)
(* Helpers on sequences and positions.                                     *)
(***************************************************************************)
Range(s) == {s[i] : i \in DOMAIN s}

Abs(n) == IF n < 0 THEN -n ELSE n

\* AbstAgent.AC_INCR, 0:u 1:ur 2:r 3:dr 4:d 5:dl 6:l 7:ul, as the agents read it.
AC_INCR == << <<0, -1>>, <<1, -1>>, <<1, 0>>, <<1, 1>>,
              <<0, 1>>, <<-1, 1>>, <<-1, 0>>, <<-1, -1>> >>

\* F(v), with the argument v evaluated once, before F is applied, as Python
\* evaluates the arguments of a call and the right-hand side of an assignment.
At(F(_), v) == CHOOSE r \in {F(x) : x \in {v}} : TRUE

Adjacent8(p, q) ==
    /\ Abs(p[1] - q[1]) <= 1
    /\ Abs(p[2] - q[2]) <= 1
    /\ p # q

(***************************************************************************)
(* MapSynchronizer (agents/map_sync.py).                                   *)
(***************************************************************************)
\* Bounds and the synchronizer's construction parameters.
MaxMaps == 2
SyncWidth == 2
SyncHeight == 1
SyncBase == <<0, 0>>
\* Positions the local maps may mention: two cells of the grid and one outside.
SyncPositions == {<<0, 0>>, <<1, 0>>, <<2, 0>>}
VictimIds == {1}

NoMap == <<>>

\* MapSynchronizer._within
Within(pos) ==
    /\ 0 <= pos[1] /\ pos[1] < SyncWidth
    /\ 0 <= pos[2] /\ pos[2] < SyncHeight

\* MapSynchronizer._filter_positions
FilterPositions(positions) == {p \in positions : Within(p)}

\* A victims loop in which a later report's signals replace the earlier ones.
RECURSIVE MergeVictimsLatestSignals(_, _)
MergeVictimsLatestSignals(victims, items) ==
    IF items = <<>> THEN victims
    ELSE LET info == Head(items)
             vid == info.vid
             next ==
                 IF ~Within(info.position) THEN victims
                 ELSE IF vid \notin DOMAIN victims
                 THEN victims @@ (vid :> [vid |-> info.vid,
                                          position |-> info.position,
                                          signals |-> info.signals,
                                          sources |-> info.sources])
                 ELSE LET existing == victims[vid]
                      IN [victims EXCEPT ![vid] =
                            [vid |-> existing.vid,
                             position |-> info.position,
                             signals |-> IF info.signals # <<>>
                                         THEN info.signals ELSE existing.signals,
                             sources |-> existing.sources \cup info.sources]]
         IN MergeVictimsLatestSignals(next, Tail(items))

\* The victims loop of merge for one local map: victims is the dict being built
\* (a function from the ids entered so far), items the local map's victims in
\* dict order.
RECURSIVE MergeVictims(_, _)
MergeVictims(victims, items) ==
    IF items = <<>> THEN victims
    ELSE LET info == Head(items)
             vid == info.vid
             next ==
                 IF ~Within(info.position) THEN victims
                 ELSE IF vid \notin DOMAIN victims
                 THEN victims @@ (vid :> [vid |-> info.vid,
                                          position |-> info.position,
                                          signals |-> info.signals,
                                          sources |-> info.sources])
                 ELSE LET existing == victims[vid]
                      IN [victims EXCEPT ![vid] =
                            [vid |-> existing.vid,
                             position |-> info.position,
                             signals |-> IF info.signals # <<>> /\ existing.signals = <<>>
                                         THEN info.signals ELSE existing.signals,
                             sources |-> existing.sources \cup info.sources]]
         IN MergeVictims(next, Tail(items))

\* One iteration of merge's loop over local_maps.
MergeOne(u, local) ==
    [base |-> u.base,
     visited |-> u.visited \cup FilterPositions(local.visited),
     obstacles |-> u.obstacles \cup FilterPositions(local.obstacles),
     victims |-> MergeVictims(u.victims, local.victims)]

RECURSIVE MergeLoop(_, _)
MergeLoop(u, locals) ==
    IF locals = <<>> THEN u
    ELSE MergeLoop(MergeOne(u, Head(locals)), Tail(locals))

\* The two statements that close merge: visited.difference_update(obstacles),
\* then visited.add(base).
MergeFinish(u) ==
    [u EXCEPT !.visited = (u.visited \ u.obstacles) \cup {u.base}]

\* MapSynchronizer.merge
MergeMaps(locals) ==
    MergeFinish(MergeLoop([base |-> SyncBase, visited |-> {SyncBase},
                           obstacles |-> {}, victims |-> <<>>], locals))

\* The local maps an explorer named name may hand over.
VictimChoices(name, sig) ==
    {<<>>} \cup
    {<<[vid |-> v, position |-> p, signals |-> s, sources |-> {name}]>> :
        v \in VictimIds, p \in SyncPositions, s \in {<<>>, <<sig>>}}

LocalMapChoices(name, sig) ==
    [name : {name}, base : {SyncBase}, visited : SUBSET SyncPositions,
     obstacles : SUBSET SyncPositions, victims : VictimChoices(name, sig)]

AgentName(i) == IF i = 1 THEN "e1" ELSE IF i = 2 THEN "e2" ELSE "e3"

\* A caller adds one more local map to the collection it will pass to merge.
CollectLocalMap ==
    /\ unified = NoMap
    /\ Len(local_maps) < MaxMaps
    /\ \E m \in LocalMapChoices(AgentName(Len(local_maps) + 1), Len(local_maps) + 1) :
          local_maps' = Append(local_maps, m)
    /\ UNCHANGED <<csvVars, unified, explVars, barrVars, rescVars, unifyVars, pathVars>>

\* merge(local_maps)
Merge ==
    /\ unified = NoMap
    /\ unified' = <<MergeMaps(local_maps)>>
    /\ UNCHANGED <<csvVars, local_maps, explVars, barrVars, rescVars, unifyVars, pathVars>>

InitMerge ==
    /\ local_maps = <<>>
    /\ unified = NoMap
    /\ IdleExpl /\ IdleBarr /\ IdleResc /\ IdleUnify /\ IdlePath /\ IdleCsv

NextMerge == CollectLocalMap \/ Merge

SpecMerge == InitMerge /\ [][NextMerge]_vars

\* C1: after merge, for every collection of local maps, visited and obstacles are
\* disjoint and the base is visited.
C1_MergeInvariant ==
    unified # NoMap =>
        /\ unified[1].visited \cap unified[1].obstacles = {}
        /\ unified[1].base \in unified[1].visited

(***************************************************************************)
(* unify_maps (analysis/merge_maps.py), the status field.                  *)
(***************************************************************************)
Statuses == {"unknown", "clear", "wall", "out_of_bounds"}

\* Coordinates the input MapGrids may hold.
UnifyCoords == {<<0, 0>>, <<1, 0>>}

\* A priority table in which unknown and out_of_bounds tie.
StatusPriorityTie(s) ==
    CASE s = "wall" -> 3
      [] s = "clear" -> 2
      [] s = "unknown" -> 0
      [] s = "out_of_bounds" -> 0
      [] OTHER -> 0

\* STATUS_PRIORITY.get(s, 0)
StatusPriority(s) ==
    CASE s = "wall" -> 3
      [] s = "clear" -> 2
      [] s = "unknown" -> 1
      [] s = "out_of_bounds" -> 0
      [] OTHER -> 0

\* A choice that keeps the status of the first contributing cell.
MaxByPriorityFirst(best, rest) == best

\* max(statuses, key=priority): Python's max keeps the first of the maximal items.
RECURSIVE MaxByPriority(_, _)
MaxByPriority(best, rest) ==
    IF rest = <<>> THEN best
    ELSE MaxByPriority(IF StatusPriority(Head(rest)) > StatusPriority(best)
                       THEN Head(rest) ELSE best, Tail(rest))

\* (c.status for c in cells), cells = [g[xy] for g in maps if xy in g].
RECURSIVE CellsAt(_, _)
CellsAt(maps, xy) ==
    IF maps = <<>> THEN <<>>
    ELSE IF xy \in DOMAIN Head(maps)
         THEN <<Head(maps)[xy].status>> \o CellsAt(Tail(maps), xy)
         ELSE CellsAt(Tail(maps), xy)

AllCoords(maps) == UNION {DOMAIN maps[i] : i \in DOMAIN maps}

\* unify_maps(maps), projected on "status": coordinate |-> chosen_status.
UnifyMaps(maps) ==
    [xy \in AllCoords(maps) |->
        LET cells == CellsAt(maps, xy)
        IN MaxByPriority(Head(cells), Tail(cells))]

\* The unified map read again as an input map (its cells carry the status).
AsGrid(u) == [xy \in DOMAIN u |-> [status |-> u[xy]]]

\* The MapGrids: any subset of the coordinates, any status in each cell.
GridChoices ==
    UNION {[D -> [status : Statuses]] : D \in SUBSET UnifyCoords}

InitUnify ==
    /\ maps3 \in [a : GridChoices, b : GridChoices, c : GridChoices]
    /\ uni = <<>>
    /\ IdleMerge /\ IdleExpl /\ IdleBarr /\ IdleResc /\ IdlePath /\ IdleCsv

\* unify_maps applied to the inputs in each order and grouping.
Unify ==
    /\ uni = <<>>
    /\ uni' = <<[ab   |-> UnifyMaps(<<maps3.a, maps3.b>>),
                 ba   |-> UnifyMaps(<<maps3.b, maps3.a>>),
                 ab_c |-> UnifyMaps(<<AsGrid(UnifyMaps(<<maps3.a, maps3.b>>)), maps3.c>>),
                 a_bc |-> UnifyMaps(<<maps3.a, AsGrid(UnifyMaps(<<maps3.b, maps3.c>>))>>),
                 abc  |-> UnifyMaps(<<maps3.a, maps3.b, maps3.c>>),
                 cba  |-> UnifyMaps(<<maps3.c, maps3.b, maps3.a>>)]>>
    /\ UNCHANGED <<csvVars, maps3, mergeVars, explVars, barrVars, rescVars, pathVars>>

NextUnify == Unify

SpecUnify == InitUnify /\ [][NextUnify]_vars

\* C8: the status unify_maps gives every coordinate does not depend on the order
\* or the grouping of the input maps.
C8_UnifyCommAssoc ==
    uni # <<>> =>
        /\ uni[1].ab = uni[1].ba
        /\ uni[1].ab_c = uni[1].a_bc
        /\ uni[1].ab_c = uni[1].abc
        /\ uni[1].abc = uni[1].cba

\* Witness of C8: the three maps disagree on a coordinate and were unified.
C8_Witness ==
    /\ uni # <<>>
    /\ \E xy \in UnifyCoords :
          /\ xy \in DOMAIN maps3.a /\ xy \in DOMAIN maps3.b /\ xy \in DOMAIN maps3.c
          /\ maps3.a[xy].status = "out_of_bounds"
          /\ maps3.b[xy].status = "unknown"
          /\ maps3.c[xy].status = "wall"
          /\ uni[1].ab[xy] = "unknown"
          /\ uni[1].abc[xy] = "wall"

(***************************************************************************)
(* RescuerAgent path planning (agents/rescuer_agent.py).                   *)
(***************************************************************************)
\* RescuerAgent._neighbors: the i-th neighbour of pos in AC_INCR order.
Neighbor(pos, i) == <<pos[1] + AC_INCR[i][1], pos[2] + AC_INCR[i][2]>>

\* allowed, read as the visited cells alone.
AllowedVisitedOnly(map) == map.visited

\* allowed = self._map.visited - self._map.obstacles
Allowed(map) == map.visited \ map.obstacles

\* A scan that looks only at the four orthogonal neighbours (the odd entries
\* of AC_INCR).
RECURSIVE ScanNeighborsOrthogonal(_, _, _, _, _, _)
ScanNeighborsOrthogonal(i, current, queue, parents, allowed, goal) ==
    IF i > Len(AC_INCR) THEN [queue |-> queue, parents |-> parents]
    ELSE LET neigh == Neighbor(current, i)
         IN IF neigh \in DOMAIN parents \/ neigh \notin allowed \/ i % 2 = 0
            THEN ScanNeighborsOrthogonal(i + 1, current, queue, parents, allowed, goal)
            ELSE IF neigh = goal
            THEN [queue |-> <<>>, parents |-> parents @@ (neigh :> <<current>>)]
            ELSE ScanNeighborsOrthogonal(i + 1, current, Append(queue, neigh),
                                         parents @@ (neigh :> <<current>>),
                                         allowed, goal)

\* The for loop over the neighbours of current, from the i-th neighbour on.
\* parents maps a cell to <<its parent>>, the start to <<>> (None).
RECURSIVE ScanNeighbors(_, _, _, _, _, _)
ScanNeighbors(i, current, queue_in, parents_in, allowed, goal) ==
    At(LAMBDA queue : At(LAMBDA parents :
        IF i > Len(AC_INCR) THEN [queue |-> queue, parents |-> parents]
        ELSE LET neigh == Neighbor(current, i)
             IN IF neigh \in DOMAIN parents \/ neigh \notin allowed
                THEN ScanNeighbors(i + 1, current, queue, parents, allowed, goal)
                ELSE IF neigh = goal
                THEN [queue |-> <<>>, parents |-> parents @@ (neigh :> <<current>>)]
                ELSE ScanNeighbors(i + 1, current, Append(queue, neigh),
                                   parents @@ (neigh :> <<current>>), allowed, goal),
        parents_in), queue_in)

\* while queue: current = queue.popleft(); ...
RECURSIVE SearchLoop(_, _, _, _)
SearchLoop(queue, parents, allowed, goal) ==
    IF queue = <<>> THEN parents
    ELSE At(LAMBDA r : SearchLoop(r.queue, r.parents, allowed, goal),
            ScanNeighbors(1, Head(queue), Tail(queue), parents, allowed, goal))

\* The parent chain from node, appended goal first and left unreversed.
RECURSIVE PathToUnreversed(_, _)
PathToUnreversed(parents, node) ==
    IF parents[node] = <<>> THEN <<node>>
    ELSE <<node>> \o PathToUnreversed(parents, parents[node][1])

\* The parent chain from node back to the start, reversed: start first.
RECURSIVE PathTo(_, _)
PathTo(parents, node) ==
    IF parents[node] = <<>> THEN <<node>>
    ELSE PathTo(parents, parents[node][1]) \o <<node>>

\* RescuerAgent._find_path
FindPath(map, start, goal) ==
    IF start = goal THEN <<start>>
    ELSE LET allowed == Allowed(map)
         IN IF start \notin allowed \/ goal \notin allowed THEN <<>>
            ELSE At(LAMBDA parents : IF goal \notin DOMAIN parents THEN <<>>
                                     ELSE PathTo(parents, goal),
                    SearchLoop(<<start>>, (start :> <<>>), allowed, goal))

\* RescuerAgent._path_to_actions
PathToActions(path) ==
    [i \in 1..(Len(path) - 1) |->
        [type |-> "move",
         dx |-> path[i + 1][1] - path[i][1],
         dy |-> path[i + 1][2] - path[i][2],
         dest |-> path[i + 1]]]

\* The inputs of _find_path called alone: a working map over a PathW x 2 grid.
PathW == 3
PathCells == (0..(PathW - 1)) \X (0..1)
PathObstacleCells == {<<1, 0>>, <<1, 1>>}

InitPath ==
    /\ fp_in \in [visited : SUBSET PathCells, obstacles : SUBSET PathObstacleCells,
                  start : PathCells, goal : PathCells]
    /\ fp_out = <<>>
    /\ IdleMerge /\ IdleExpl /\ IdleBarr /\ IdleResc /\ IdleUnify /\ IdleCsv

\* path = self._find_path(start, goal)
CallFindPath ==
    /\ fp_out = <<>>
    /\ fp_out' = <<FindPath(fp_in, fp_in.start, fp_in.goal)>>
    /\ UNCHANGED <<csvVars, fp_in, mergeVars, explVars, barrVars, rescVars, unifyVars>>

NextPath == CallFindPath

SpecPath == InitPath /\ [][NextPath]_vars

\* The cells reachable from the cells of S through 8-adjacent cells of allowed.
RECURSIVE Closure(_, _)
Closure(S, allowed) ==
    LET more == {q \in allowed : \E p \in S : Adjacent8(p, q)} \ S
    IN IF more = {} THEN S ELSE Closure(S \cup more, allowed)

\* goal can be reached from start inside allowed (both ends inside allowed).
Reachable(allowed, start, goal) ==
    /\ start \in allowed
    /\ goal \in Closure({start}, allowed)

\* visited \ obstacles of the working map handed to _find_path.
PlannableCells == fp_in.visited \ fp_in.obstacles

PathEndsAndSteps(path, start, goal) ==
    /\ path[1] = start
    /\ path[Len(path)] = goal
    /\ \A i \in 1..(Len(path) - 1) : Adjacent8(path[i], path[i + 1])

NewCell ==
    [status |-> "unknown", visited |-> FALSE, last_seen_step |-> -1,
     neighbors_clear |-> {}, victim_present |-> FALSE, victim_id |-> <<>>,
     vitals_read |-> FALSE, read_step |-> <<>>, vitals_raw |-> <<>>,
     discovered_by |-> "", floor_factor |-> <<>>, g_cost |-> <<>>,
     parent |-> <<>>]

\* grid.get(xy, CellInfo())
GetCell(grid, xy) == IF xy \in DOMAIN grid THEN grid[xy] ELSE NewCell

\* grid[xy] = cell
PutCell(grid, xy, cell) ==
    [k \in DOMAIN grid \cup {xy} |-> IF k = xy THEN cell ELSE grid[k]]

\* A discovered_by that always takes the name of the agent now writing.
DiscoveredByLatest(cell, agent) == agent

\* cell.discovered_by or agent
DiscoveredBy(cell, agent) == IF cell.discovered_by = "" THEN agent ELSE cell.discovered_by

\* record_cell(agent, grid, xy, status, step, floor_factor, g_cost, parent);
\* an argument left at None is <<>>.
RecordCellWith(agent, grid, xy, status, step, floor_factor, g_cost, parent) ==
    LET cell == GetCell(grid, xy)
    IN PutCell(grid, xy,
               [cell EXCEPT !.status = status, !.visited = TRUE,
                            !.last_seen_step = step,
                            !.discovered_by = DiscoveredBy(cell, agent),
                            !.floor_factor = IF floor_factor # <<>>
                                             THEN floor_factor ELSE @,
                            !.g_cost = IF g_cost # <<>> THEN g_cost ELSE @,
                            !.parent = IF parent # <<>> THEN parent ELSE @])

\* record_cell(agent, grid, xy, status, step)
RecordCell(agent, grid, xy, status, step) ==
    RecordCellWith(agent, grid, xy, status, step, <<>>, <<>>, <<>>)

\* record_neighbors(agent, grid, xy, neighbors, step); neighbors is a function
\* from coordinates to statuses.
RecordNeighbors(agent, grid, xy, neighbors, step) ==
    LET marked ==
            [k \in DOMAIN grid \cup DOMAIN neighbors |->
                IF k \in DOMAIN neighbors
                THEN LET cell == GetCell(grid, k)
                     IN [cell EXCEPT !.status = neighbors[k],
                                     !.discovered_by = DiscoveredBy(cell, agent),
                                     !.last_seen_step = step]
                ELSE grid[k]]
        current == GetCell(marked, xy)
        clear_coords == {n \in DOMAIN neighbors : neighbors[n] = "clear"}
    IN PutCell(marked, xy,
               [current EXCEPT !.neighbors_clear = @ \cup clear_coords])

\* A record_victim that starts from a fresh CellInfo instead of the cell's own.
RecordVictimFresh(agent, grid, xy, victim_id, vitals_read, step, vitals_raw) ==
    PutCell(grid, xy,
            [NewCell EXCEPT !.victim_present = TRUE, !.victim_id = <<victim_id>>,
                            !.discovered_by = agent])

\* record_victim(agent, grid, xy, victim_id, vitals_read, step, vitals_raw)
RecordVictim(agent, grid, xy, victim_id, vitals_read, step, vitals_raw) ==
    LET cell == GetCell(grid, xy)
        seen == [cell EXCEPT !.victim_present = TRUE, !.victim_id = <<victim_id>>,
                             !.discovered_by = DiscoveredBy(cell, agent)]
    IN PutCell(grid, xy,
               IF vitals_read
               THEN [seen EXCEPT !.vitals_read = TRUE, !.read_step = <<step>>,
                                 !.vitals_raw = vitals_raw]
               ELSE seen)

(***************************************************************************)
(* The environment of one ExplorerAgent: the primitives of AbstAgent that  *)
(* the agent calls (walk, check_walls_and_lim, check_for_victim,           *)
(* read_vital_signals, get_rtime).  Their code is the simulator's, which   *)
(* is not among the sources; they follow the interface of the              *)
(* specification, section 6, on a grid of GridW x 3 cells whose floor has  *)
(* difficulty 1.                                                           *)
(***************************************************************************)
GridW == 3
GridCells == (0..(GridW - 1)) \X (0..2)
\* The scenario of the end-to-end properties: base (2,2), one victim at (0,0).
BasePos == <<2, 2>>
VictimPos == <<0, 0>>
\* A second scenario puts the victim beside the base.
NearVictimPos == <<1, 2>>
NoWalls == {}
\* Walls that fully enclose the victim cell.
EnclosingWalls == {<<1, 0>>, <<0, 1>>, <<1, 1>>}
\* A single wall on the diagonal between the victim's corner and the base.
CentreWall == {<<1, 1>>}

\* Costs of the agent's configuration file, in halves of a time unit.
CostLine == 2
CostDiag == 3
CostRead == 4

\* A time limit that no run on the grid can use up, nor bring under its 10%.
AmpleTlim == 10 * CostDiag * GridW * 3
TightTlims == {1, 4, 8, 11, 14, 20, 26}

IsFree(walls, p) == p \in GridCells /\ p \notin walls

\* check_walls_and_lim(): one flag per direction of AC_INCR.
CheckWallsAndLim(walls, at) ==
    [i \in DOMAIN AC_INCR |->
        LET t == <<at[1] + AC_INCR[i][1], at[2] + AC_INCR[i][2]>>
        IN IF t \notin GridCells THEN "END"
           ELSE IF t \in walls THEN "WALL" ELSE "CLEAR"]

WalkCost(dx, dy) == IF dx # 0 /\ dy # 0 THEN CostDiag ELSE CostLine

\* walk(dx, dy) on the run context c: the time is charged, the body moves when
\* the target is free and the time was enough.  c.hidden are obstacles the
\* probe of check_walls_and_lim does not show (none in the scenarios of
\* SpecExplorer).
EnvWalk(c, dx, dy, mode) ==
    LET target == <<c.body[1] + dx, c.body[2] + dy>>
        left == c.rtime - WalkCost(dx, dy)
        res == IF IsFree(c.walls \cup c.hidden, target)
               THEN IF left < 0 THEN "TIME_EXCEEDED" ELSE "EXECUTED"
               ELSE "BUMPED"
    IN [c EXCEPT !.rtime = left,
                 !.body = IF res = "EXECUTED" THEN target ELSE @,
                 !.walks = Append(@, [dx |-> dx, dy |-> dy, res |-> res,
                                      from |-> c.body, mode |-> mode])]

LastWalk(c) == c.walks[Len(c.walks)]

\* read_vital_signals(): charges the read; the signals, or TIME_EXCEEDED.
EnvReadVitalSignals(c) ==
    [c EXCEPT !.rtime = @ - CostRead, !.reads = @ + 1]

\* check_for_victim(): <<id>> of the victim at the body's cell, <<>> for NO_VICTIM.
CheckForVictim(c) == IF c.body = c.victim THEN <<0>> ELSE <<>>

(***************************************************************************)
(* ExplorerAgent (agents/explorer_agent.py).  A deliberate call is         *)
(* computed on a run context c: the agent's fields (c.a), the              *)
(* environment's time, body position and walls, and what the call did      *)
(* (state set, value returned, walks, reads).                              *)
(***************************************************************************)
ExplorerName == "explorer_1"
\* The signals the simulator returns for the victim.
VictimSignals == <<7>>

\* ExplorerAgent.__init__
NewExplorer ==
    [initialized |-> FALSE, victims_found |-> {}, obstacles_found |-> {},
     visited |-> {}, stack |-> <<>>, pos |-> <<>>, returning |-> FALSE,
     base |-> BasePos, grid |-> <<>>, step_count |-> 0]

\* ExplorerAgent._step_cost_lower_bound
StepCostLowerBound(p1, p2) == (Abs(p1[1] - p2[1]) + Abs(p1[2] - p2[2])) * CostLine

\* The free list of _neighbors_clear, in AC_INCR order.
NeighborsFree(c) ==
    LET obst == CheckWallsAndLim(c.walls, c.body)
    IN {<<c.a.pos[1] + AC_INCR[i][1], c.a.pos[2] + AC_INCR[i][2]>> :
            i \in {j \in DOMAIN AC_INCR : obst[j] = "CLEAR"}}

\* A sensor reading that takes the END flags for the walls.
NeighborsWallAsEnd(c) ==
    LET obst == CheckWallsAndLim(c.walls, c.body)
    IN {<<c.a.pos[1] + AC_INCR[i][1], c.a.pos[2] + AC_INCR[i][2]>> :
            i \in {j \in DOMAIN AC_INCR : obst[j] = "END"}}

\* The cells _neighbors_clear adds to obstacles_found.
NeighborsWall(c) ==
    LET obst == CheckWallsAndLim(c.walls, c.body)
    IN {<<c.a.pos[1] + AC_INCR[i][1], c.a.pos[2] + AC_INCR[i][2]>> :
            i \in {j \in DOMAIN AC_INCR : obst[j] = "WALL"}}

Sign(n) == IF n = 0 THEN 0 ELSE IF n > 0 THEN 1 ELSE -1

\* ExplorerAgent._greedy_step_towards: <<next position, <<dx, dy>>>>
GreedyStepTowards(src, dst) ==
    LET dx == Sign(dst[1] - src[1])
        dy == Sign(dst[2] - src[2])
    IN << <<src[1] + dx, src[2] + dy>>, <<dx, dy>> >>

\* A halt that sets the state and lets the call return True.
HaltReturningTrue(c, s) == [c EXCEPT !.state = s]

\* self.set_state(s); return False
Halt(c, s) == [c EXCEPT !.state = s, !.ret = FALSE]

\* deliberate, lines 107-113: the lazy initialization of the first cycle.
LazyInit(c) ==
    IF c.a.initialized THEN c
    ELSE [c EXCEPT !.a = [c.a EXCEPT !.pos = c.a.base, !.stack = <<c.a.base>>,
                                     !.visited = {}, !.returning = FALSE,
                                     !.initialized = TRUE,
                                     !.grid = RecordCell(ExplorerName, c.a.grid, c.a.base,
                                                         "clear", c.a.step_count)]]

\* deliberate, lines 125-128: under 10% of TLIM the agent starts to return.
BatteryCheck(c) ==
    IF 10 * c.rtime < c.tlim /\ ~c.a.returning
    THEN [c EXCEPT !.a.returning = TRUE] ELSE c

\* deliberate, lines 130-149: mark the visit, sense a victim, read its signals.
\* bool(vitals) is true for a signal list and for TIME_EXCEEDED alike.
MarkAndSense(c) ==
    LET marked == [c EXCEPT !.a.visited = @ \cup {c.a.pos},
                            !.a.grid = RecordCell(ExplorerName, @, c.a.pos, "clear",
                                                  c.a.step_count)]
        vic == CheckForVictim(marked)
        read == EnvReadVitalSignals(marked)
    IN IF vic = <<>> THEN marked
       ELSE [read EXCEPT !.a.grid =
                RecordVictim(ExplorerName, @, c.a.pos, vic[1], TRUE, c.a.step_count,
                             IF read.rtime < 0 THEN <<>> ELSE VictimSignals)]

\* deliberate, lines 164-180: the greedy step was refused.
ReturnBlocked(c, nxt_pos) ==
    LET noted == [c EXCEPT !.a.obstacles_found = @ \cup {nxt_pos}]
        prev == noted.a.stack[Len(noted.a.stack) - 1]
        back == EnvWalk(noted, prev[1] - noted.a.pos[1], prev[2] - noted.a.pos[2],
                        "fallback")
    IN IF Len(noted.a.stack) > 1
       THEN IF LastWalk(back).res = "EXECUTED"
            THEN [back EXCEPT !.a.pos = prev,
                              !.a.stack = SubSeq(@, 1, Len(@) - 1)]
            ELSE Halt(back, "IDLE")
       ELSE Halt(noted, "IDLE")

\* deliberate, lines 153-180: one step of the return to the base.
ReturnMode(c) ==
    LET g == GreedyStepTowards(c.a.pos, c.a.base)
        nxt_pos == g[1]
        walked == EnvWalk(c, g[2][1], g[2][2], "greedy")
    IN IF LastWalk(walked).res = "EXECUTED"
       THEN LET moved == [walked EXCEPT !.a.pos = nxt_pos]
            IN IF nxt_pos = c.a.base THEN Halt(moved, "IDLE") ELSE moved
       ELSE ReturnBlocked(walked, nxt_pos)

\* deliberate, lines 184-191: sense the neighbours and record them in the grid.
SenseNeighbors(c) ==
    LET neighbors == NeighborsFree(c)
        found == c.a.obstacles_found \cup NeighborsWall(c)
        neigh_dict == [n \in neighbors \cup found |->
                          IF n \in neighbors THEN "clear" ELSE "wall"]
    IN [c EXCEPT !.a.obstacles_found = found,
                 !.a.grid = RecordNeighbors(ExplorerName, @, c.a.pos, neigh_dict,
                                            c.a.step_count)]

\* A choice among all the free neighbours, visited or not.
UnvisitedOrNot(c) == NeighborsFree(c)

\* [n for n in neighbors if n not in self.visited]
Unvisited(c) == NeighborsFree(c) \ c.a.visited

\* A forward move that takes the step whatever walk returned.
ForwardMoveConsuming(c, nxt) ==
    LET walked == EnvWalk(c, nxt[1] - c.a.pos[1], nxt[2] - c.a.pos[2], "forward")
    IN IF StepCostLowerBound(nxt, c.a.base) >= c.rtime
       THEN [c EXCEPT !.a.returning = TRUE]
       ELSE [walked EXCEPT !.a.pos = nxt, !.a.stack = Append(@, nxt),
                           !.a.step_count = @ + 1,
                           !.a.grid = RecordCell(ExplorerName, @, nxt, "clear",
                                                 c.a.step_count + 1)]

\* A forward move that, the reserve failing for nxt, returns True without
\* setting returning.
ForwardMoveStalling(c, nxt) ==
    LET walked == EnvWalk(c, nxt[1] - c.a.pos[1], nxt[2] - c.a.pos[2], "forward")
    IN IF StepCostLowerBound(nxt, c.a.base) >= c.rtime
       THEN c
       ELSE IF LastWalk(walked).res = "EXECUTED"
       THEN [walked EXCEPT !.a.pos = nxt, !.a.stack = Append(@, nxt),
                           !.a.step_count = @ + 1,
                           !.a.grid = RecordCell(ExplorerName, @, nxt, "clear",
                                                 c.a.step_count + 1)]
       ELSE [walked EXCEPT !.a.obstacles_found = @ \cup {nxt}]

\* deliberate, lines 202-222: the forward move to the chosen neighbour nxt.
ForwardMove(c, nxt) ==
    LET walked == EnvWalk(c, nxt[1] - c.a.pos[1], nxt[2] - c.a.pos[2], "forward")
    IN IF StepCostLowerBound(nxt, c.a.base) >= c.rtime
       THEN [c EXCEPT !.a.returning = TRUE]
       ELSE IF LastWalk(walked).res = "EXECUTED"
       THEN [walked EXCEPT !.a.pos = nxt, !.a.stack = Append(@, nxt),
                           !.a.step_count = @ + 1,
                           !.a.grid = RecordCell(ExplorerName, @, nxt, "clear",
                                                 c.a.step_count + 1)]
       ELSE [walked EXCEPT !.a.obstacles_found = @ \cup {nxt}]

\* A backtrack step that gives up and starts the return instead of walking.
BacktrackGiveUp(c) == [c EXCEPT !.a.returning = TRUE]

\* A backtrack step that walks to the previous cell and leaves the stack as it
\* was.
BacktrackKeepStack(c) ==
    LET prev == c.a.stack[Len(c.a.stack) - 1]
        walked == EnvWalk(c, prev[1] - c.a.pos[1], prev[2] - c.a.pos[2], "backtrack")
    IN IF LastWalk(walked).res = "EXECUTED"
       THEN [walked EXCEPT !.a.pos = prev]
       ELSE [walked EXCEPT !.a.returning = TRUE]

\* deliberate, lines 225-238: one step back along the stack.
Backtrack(c) ==
    LET prev == c.a.stack[Len(c.a.stack) - 1]
        walked == EnvWalk(c, prev[1] - c.a.pos[1], prev[2] - c.a.pos[2], "backtrack")
    IN IF LastWalk(walked).res = "EXECUTED"
       THEN [walked EXCEPT !.a.pos = prev, !.a.stack = SubSeq(@, 1, Len(@) - 1)]
       ELSE [walked EXCEPT !.a.returning = TRUE]

\* An exploration step that does not test the reserve at the current cell.
ExploreModeUnreserved(sensed, pick) ==
       IF Unvisited(sensed) # {} THEN ForwardMove(sensed, pick)
       ELSE IF Len(sensed.a.stack) > 1 THEN Backtrack(sensed)
       ELSE IF sensed.a.pos # sensed.a.base THEN [sensed EXCEPT !.a.returning = TRUE]
       ELSE Halt(sensed, "ENDED")

\* deliberate, lines 192-252: one step of the exploration after the neighbours
\* were sensed; pick is the value of self._rng.choice(unvisited).
ExploreMode(sensed, pick) ==
       IF StepCostLowerBound(sensed.a.pos, sensed.a.base) >= sensed.rtime
       THEN [sensed EXCEPT !.a.returning = TRUE]
       ELSE IF Unvisited(sensed) # {} THEN ForwardMove(sensed, pick)
       ELSE IF Len(sensed.a.stack) > 1 THEN Backtrack(sensed)
       ELSE IF sensed.a.pos # sensed.a.base THEN [sensed EXCEPT !.a.returning = TRUE]
       ELSE Halt(sensed, "ENDED")

\* deliberate up to the choice of the mode.
Prelude(c) == MarkAndSense(BatteryCheck(c))

\* ExplorerAgent.deliberate, from the context started after the lazy
\* initialization, ready after the prelude and sensed after the neighbour scan.
DeliberateCall(started, ready, sensed, pick) ==
    IF started.rtime < 0 THEN Halt(started, "DEAD")
    ELSE IF ready.a.returning THEN ReturnMode(ready)
    ELSE ExploreMode(sensed, pick)

\* The values self._rng.choice may return in this call.
Picks(started, ready) ==
    IF started.rtime >= 0 /\ ~ready.a.returning /\ Unvisited(ready) # {}
    THEN Unvisited(ready) ELSE {<<>>}

Context ==
    [a |-> ex, rtime |-> rtime, body |-> body, walls |-> env.walls,
     hidden |-> env.hidden,
     victim |-> env.victim, tlim |-> env.tlim, state |-> state, ret |-> TRUE,
     walks |-> <<>>, reads |-> 0]

\* The scheduler calls deliberate of an agent that has not yet returned False.
Deliberate ==
    /\ trace.ret
    /\ \E started \in {LazyInit(Context)} :
       \E ready \in {Prelude(started)} :
       \E sensed \in {SenseNeighbors(ready)} :
       \E pick \in Picks(started, ready) :
       \E r \in {DeliberateCall(started, ready, sensed, pick)} :
          /\ ex' = r.a
          /\ rtime' = r.rtime
          /\ body' = r.body
          /\ state' = r.state
          /\ trace' = [ret |-> r.ret, walks |-> r.walks, reads |-> r.reads,
                        before |-> rtime]
    /\ UNCHANGED <<csvVars, env, mergeVars, barrVars, rescVars, unifyVars, pathVars>>

\* The scenarios: the three wall layouts with the victim in the corner, and the
\* open grid with the victim beside the base, each under every time limit.
Scenarios ==
    [walls : {NoWalls, EnclosingWalls, CentreWall}, victim : {VictimPos},
     tlim : {AmpleTlim} \cup TightTlims, hidden : {{}}]
    \cup [walls : {NoWalls}, victim : {NearVictimPos},
          tlim : {AmpleTlim} \cup TightTlims, hidden : {{}}]

InitExplorer ==
    /\ env \in Scenarios
    /\ ex = NewExplorer
    /\ rtime = env.tlim
    /\ body = BasePos
    /\ state = "ACTIVE"
    /\ trace = [ret |-> TRUE, walks |-> <<>>, reads |-> 0, before |-> env.tlim]
    /\ IdleMerge /\ IdleBarr /\ IdleResc /\ IdleUnify /\ IdlePath /\ IdleCsv

NextExplorer == Deliberate

SpecExplorer == InitExplorer /\ [][NextExplorer]_vars

\* The end-to-end runs: the scenarios with the ample time budget.
InitEndToEnd == InitExplorer /\ env.tlim = AmpleTlim

\* The agent's turn comes at every tick while it has not returned False.
SpecEndToEnd == InitEndToEnd /\ [][NextExplorer]_vars /\ WF_vars(Deliberate)

\* The agent has stopped: its last deliberate call returned False.
Halted == ~trace.ret

\* C2: over a deliberate call the remaining time does not increase, and a
\* stopped agent is in the DEAD state exactly when its time is below zero.
C2_DeadIffNegative ==
    /\ rtime <= trace.before
    /\ Halted => (state = "DEAD" <=> rtime < 0)

\* The scenario of C3: no walls, the victim in the far corner, ample time.
OpenAmple ==
    env.walls = NoWalls /\ env.victim = VictimPos /\ env.tlim = AmpleTlim

\* The outcome C3 asks for.
EndedAtBase ==
    /\ Halted
    /\ state = "ENDED"
    /\ ex.visited = GridCells
    /\ VictimPos \in DOMAIN ex.grid
    /\ ex.grid[VictimPos].victim_present
    /\ ex.grid[VictimPos].victim_id = <<0>>
    /\ body = BasePos
    /\ ex.pos = BasePos
    /\ rtime >= 0

\* C3: on the open grid with ample time, whatever the random choices, the agent
\* eventually halts in ENDED at the base, every cell visited, the victim recorded
\* and time left.
C3_EndToEndOpen == OpenAmple ~> EndedAtBase

\* Witness of C3: the run of the open scenario has ended as asked.
C3_Witness == OpenAmple /\ EndedAtBase

\* The scenario of C4: walls all around the victim's cell.
Walled == env.walls = EnclosingWalls /\ env.victim = VictimPos

\* C4: with the victim walled in, its cell is never visited, no cell of the map
\* is marked victim_present, no vital signs are read, and a run with ample time
\* ends with the three walls in obstacles_found.
C4_EndToEndWalled ==
    Walled =>
        /\ VictimPos \notin ex.visited
        /\ \A xy \in DOMAIN ex.grid : ~ex.grid[xy].victim_present
        /\ trace.reads = 0
        /\ (Halted /\ env.tlim = AmpleTlim) =>
              (EnclosingWalls \subseteq ex.obstacles_found /\ state = "ENDED")

\* Witness of C4: the walled run with ample time has stopped, the free cells
\* visited and the walls found.
C4_Witness ==
    /\ Walled /\ env.tlim = AmpleTlim /\ Halted
    /\ ex.visited = GridCells \ (EnclosingWalls \cup {VictimPos})
    /\ EnclosingWalls \subseteq ex.obstacles_found

(***************************************************************************)
(* sma/tarefa2: three ExplorerDFS agents, the MissionCoordinator and the   *)
(* RescuerMaster.  The simulator is modelled from the interface the agents *)
(* use: a walk charges its cost and moves the body when the target is free *)
(* and the time was enough; agents do not block one another.               *)
(***************************************************************************)
\* main.py: MissionCoordinator(total_explorers=3, ...) and three ExplorerDFS.
TotalExplorers == 3
Explorers == 1..TotalExplorers

\* ExplorerDFS.SAFETY_MARGIN, in the unit of the costs.
SafetyMargin == 8

\* main.py: the direction preferences of the three explorers.
DirectionPreferences ==
    << <<0, 1, 2, 3, 4, 5, 6, 7>>,
       <<2, 3, 4, 5, 6, 7, 0, 1>>,
       <<6, 7, 0, 1, 2, 3, 4, 5>> >>

\* The grid of the three explorers; the base is the origin of their maps.
DfsW == 2
DfsCells == (0..(DfsW - 1)) \X (0..1)
DfsBase == <<0, 0>>
\* The cells a victim may lie in, and its sequence number.
DfsVictimCells == DfsCells \ {DfsBase}
DfsVictimSeq == 0
NoVictim == -1

\* The time limits of the explorers' configuration files.
DfsTlims == {8, 17, 21, 200}

DfsName(i) == <<"explorer", i>>

\* The body's cell of the explorer in context cx.
DfsBody(cx) == <<cx.base[1] + cx.a.rel_x, cx.base[2] + cx.a.rel_y>>

\* check_walls_and_lim(): WALL for a walled cell, CLEAR for another cell of the
\* grid, whose cells are those that have a difficulty, END outside the grid.
DfsCheckWallsAndLim(cx) ==
    [i \in DOMAIN AC_INCR |->
        IF Neighbor(DfsBody(cx), i) \in cx.walls THEN "WALL"
        ELSE IF Neighbor(DfsBody(cx), i) \in DOMAIN cx.difficulty THEN "CLEAR"
        ELSE "END"]

\* check_for_victim()
DfsCheckForVictim(cx) == IF DfsBody(cx) = cx.victim THEN DfsVictimSeq ELSE NoVictim

\* The difficulty of every cell where the ground is even.
EvenGround == [xy \in DfsCells |-> 1]

\* walk(dx, dy): <<result, context after the walk>>; a step into a cell
\* costs the cost of the move times the difficulty of the cell.
DfsEnvWalk(cx, dx, dy) ==
    LET target == <<DfsBody(cx)[1] + dx, DfsBody(cx)[2] + dy>>
        left == cx.rtime - WalkCost(dx, dy)
                           * (IF target \in DOMAIN cx.difficulty
                              THEN cx.difficulty[target] ELSE 1)
    IN << IF target \in DOMAIN cx.difficulty /\ target \notin cx.walls
          THEN IF left < 0 THEN "TIME_EXCEEDED" ELSE "EXECUTED"
          ELSE "BUMPED",
          [cx EXCEPT !.rtime = left] >>

\* VictimModels.predict on the signals of victim seq: <<tri, sobr>>.
Predict(seq) == <<1 + (seq % 4), 1>>

(***************************************************************************)
(* AgentMap and MapCell (sma/tarefa2/map_representation.py).  A map is a   *)
(* function from coordinates to cells.                                     *)
(***************************************************************************)
\* MapCell._merge_difficulty, with every difficulty >= 0 (VS.OBST_WALL is not).
MergeDifficulty(first, second) ==
    IF first = 0 THEN second
    ELSE IF second = 0 THEN first
    ELSE IF first < second THEN first ELSE second

\* MapCell._merge_victim
MergeVictim(first, second) == IF first # NoVictim THEN first ELSE second

\* MapCell._merge_obstacles
MergeObstacles(first, second) ==
    [i \in DOMAIN first |->
        IF first[i] = "UNK" THEN second[i]
        ELSE IF second[i] = "UNK" THEN first[i]
        ELSE second[i]]

\* MapCell.merged_with
MergedWith(cell, other) ==
    [difficulty |-> MergeDifficulty(cell.difficulty, other.difficulty),
     victim_seq |-> MergeVictim(cell.victim_seq, other.victim_seq),
     obstacles |-> MergeObstacles(cell.obstacles, other.obstacles)]

\* AgentMap.update_cell with the three keyword arguments given.
UpdateCell(m, xy, difficulty, victim_seq, obstacles) ==
    [k \in DOMAIN m \cup {xy} |->
        IF k # xy THEN m[k]
        ELSE IF xy \notin DOMAIN m
        THEN [difficulty |-> difficulty, victim_seq |-> victim_seq,
              obstacles |-> obstacles]
        ELSE [difficulty |-> difficulty, victim_seq |-> victim_seq,
              obstacles |-> MergeObstacles(m[xy].obstacles, obstacles)]]

\* AgentMap.merge_from
MergeFrom(m, other) ==
    [k \in DOMAIN m \cup DOMAIN other |->
        IF k \in DOMAIN m /\ k \in DOMAIN other THEN MergedWith(m[k], other[k])
        ELSE IF k \in DOMAIN other THEN other[k]
        ELSE m[k]]

(***************************************************************************)
(* RescuerMaster.prepare_mission and MissionCoordinator                    *)
(***************************************************************************)
\* RescuerMaster.prepare_mission; prepared counts the calls.
PrepareMission(m, global_map, victims, metrics) ==
    [m EXCEPT !.global_map = <<global_map>>, !.victims = victims,
              !.metrics = metrics, !.ready = TRUE, !.state = "ACTIVE",
              !.prepared = @ + 1]

\* The loop of _finalize_reports with >= in place of >: on equal tri the later
\* report replaces the earlier one.
RECURSIVE FinalizeLoopKeepLast(_, _, _)
FinalizeLoopKeepLast(reports, i, acc) ==
    IF i > Len(reports) THEN acc
    ELSE LET r == reports[i]
             agg == [vid \in DOMAIN acc.aggregated \cup DOMAIN r.victims |->
                        IF vid \notin DOMAIN r.victims THEN acc.aggregated[vid]
                        ELSE IF vid \notin DOMAIN acc.aggregated
                                \/ r.victims[vid].tri >= acc.aggregated[vid].tri
                        THEN r.victims[vid]
                        ELSE acc.aggregated[vid]]
         IN FinalizeLoopKeepLast(reports, i + 1,
                [global_map |-> MergeFrom(acc.global_map, r.map),
                 aggregated |-> agg,
                 victim_sets |-> acc.victim_sets @@ (r.name :> r.victim_ids)])

\* The loop of _finalize_reports over the reports from index i on: acc holds
\* global_map, aggregated_victims and victim_sets.
RECURSIVE FinalizeLoop(_, _, _)
FinalizeLoop(reports, i, acc) ==
    IF i > Len(reports) THEN acc
    ELSE LET r == reports[i]
             agg == [vid \in DOMAIN acc.aggregated \cup DOMAIN r.victims |->
                        IF vid \notin DOMAIN r.victims THEN acc.aggregated[vid]
                        ELSE IF vid \notin DOMAIN acc.aggregated
                                \/ r.victims[vid].tri > acc.aggregated[vid].tri
                        THEN r.victims[vid]
                        ELSE acc.aggregated[vid]]
         IN FinalizeLoop(reports, i + 1,
                [global_map |-> MergeFrom(acc.global_map, r.map),
                 aggregated |-> agg,
                 victim_sets |-> acc.victim_sets @@ (r.name :> r.victim_ids)])

\* MissionCoordinator._finalize_reports on the pair of coordinator and master.
FinalizeReports(cm) ==
    LET acc == FinalizeLoop(cm.coord.explorer_reports, 1,
                   [global_map |-> cm.coord.global_map, aggregated |-> <<>>,
                    victim_sets |-> <<>>])
        unique == UNION {acc.victim_sets[n] : n \in DOMAIN acc.victim_sets}
        metrics == [unique |-> Cardinality(unique),
                    per_explorer |-> [n \in DOMAIN acc.victim_sets |->
                                         Cardinality(acc.victim_sets[n])]]
    IN [coord |-> [cm.coord EXCEPT !.global_map = acc.global_map,
                                   !.metrics = metrics,
                                   !.finalized = @ + 1],
        master |-> IF cm.coord.master
                   THEN PrepareMission(cm.master, acc.global_map, acc.aggregated,
                                       metrics)
                   ELSE cm.master]

\* A barrier that opens at the first report.
BarrierReachedEarly(reports) == Len(reports) >= 1

\* receive_report, line 55: the barrier.
BarrierReached(reports) == Len(reports) = TotalExplorers

\* MissionCoordinator.receive_report
ReceiveReport(cm, name, agent_map, victims, victim_ids) ==
    LET filed == [cm EXCEPT !.coord.explorer_reports =
                      Append(@, [name |-> name, map |-> agent_map,
                                 victims |-> victims, victim_ids |-> victim_ids])]
    IN IF BarrierReached(filed.coord.explorer_reports)
       THEN FinalizeReports(filed) ELSE filed

(***************************************************************************)
(* ExplorerDFS (sma/tarefa2/explorer.py).  A call is computed on a context *)
(* cx: the explorer's fields (cx.a), its remaining time, the victim's      *)
(* cell, the coordinator and the master (cx.cm), the value returned.       *)
(***************************************************************************)
\* ExplorerDFS.__init__ before _update_current_cell(initial=True)
NewExplorerDFS(i) ==
    [name |-> DfsName(i), map |-> <<>>, rel_x |-> 0, rel_y |-> 0,
     walk_history |-> <<>>, accumulated_return_cost |-> 0, steps_taken |-> 0,
     path_stack |-> << <<0, 0>> >>, untried |-> <<>>, found_victims |-> <<>>,
     returning |-> FALSE, finished |-> FALSE,
     direction_preference |-> DirectionPreferences[i]]

\* return v
DfsReturn(cx, v) == [cx EXCEPT !.ret = v]

\* ExplorerDFS._ordered_clear_directions
OrderedClearDirections(cx) ==
    LET obstacles == DfsCheckWallsAndLim(cx)
        IsClear(d) == obstacles[d + 1] = "CLEAR"
    IN SelectSeq(cx.a.direction_preference, IsClear)

\* ExplorerDFS._current_cell_difficulty
CurrentCellDifficulty(a) ==
    LET last == a.walk_history[Len(a.walk_history)]
    IN IF a.walk_history = <<>> THEN 0
       ELSE IF last[1] = 0 /\ last[2] = 0 THEN 0
       ELSE last[3] \div WalkCost(last[1], last[2])

\* ExplorerDFS._handle_victim
HandleVictim(cx, seq) ==
    LET left == cx.rtime - CostRead
        p == Predict(seq)
    IN IF left < 0
       THEN [cx EXCEPT !.rtime = left, !.a.returning = TRUE]
       ELSE [cx EXCEPT !.rtime = left,
                       !.a.found_victims = @ @@ (seq :>
                           [id |-> seq, position |-> <<cx.a.rel_x, cx.a.rel_y>>,
                            tri |-> p[1], sobr |-> p[2]])]

\* ExplorerDFS._update_current_cell
UpdateCurrentCell(cx, initial) ==
    LET xy == <<cx.a.rel_x, cx.a.rel_y>>
        victim_seq == DfsCheckForVictim(cx)
        difficulty == IF ~initial /\ cx.a.walk_history # <<>>
                      THEN CurrentCellDifficulty(cx.a)
                      ELSE IF xy \in DOMAIN cx.a.map THEN cx.a.map[xy].difficulty
                      ELSE 0
        noted == [cx EXCEPT !.a.map = UpdateCell(@, xy, difficulty, victim_seq,
                                                 DfsCheckWallsAndLim(cx))]
    IN IF victim_seq # NoVictim /\ victim_seq \notin DOMAIN cx.a.found_victims
       THEN At(LAMBDA c : HandleVictim(c, victim_seq), noted) ELSE noted

\* ExplorerDFS._push_walk, called after rel_x, rel_y moved.
PushWalk(a, dx, dy, cost) ==
    [a EXCEPT !.walk_history = Append(@, <<dx, dy, cost>>),
              !.accumulated_return_cost = @ + cost,
              !.path_stack = Append(@, <<a.rel_x, a.rel_y>>)]

\* ExplorerDFS._pop_walk on a non-empty walk_history: the fields after the pop.
PopWalk(a) ==
    LET last == a.walk_history[Len(a.walk_history)]
    IN [a EXCEPT !.walk_history = SubSeq(@, 1, Len(@) - 1),
                 !.accumulated_return_cost =
                     IF @ - last[3] < 0 THEN 0 ELSE @ - last[3],
                 !.path_stack = IF @ = <<>> THEN @ ELSE SubSeq(@, 1, Len(@) - 1)]

\* ExplorerDFS._should_start_return
ShouldStartReturn(cx) == cx.rtime <= cx.a.accumulated_return_cost + SafetyMargin

\* ExplorerDFS._walk: <<result, context>>
DfsWalk(cx, dx, dy) ==
    LET w == DfsEnvWalk(cx, dx, dy)
        moved == [w[2] EXCEPT !.a = PushWalk([@ EXCEPT !.rel_x = @ + dx,
                                                      !.rel_y = @ + dy,
                                                      !.steps_taken = @ + 1],
                                             dx, dy, cx.rtime - w[2].rtime)]
    IN << w[1],
          IF w[1] = "EXECUTED" THEN At(LAMBDA c : UpdateCurrentCell(c, FALSE), moved)
          ELSE IF w[1] = "BUMPED" THEN At(LAMBDA c : UpdateCurrentCell(c, FALSE), w[2])
          ELSE [w[2] EXCEPT !.a.returning = TRUE] >>

\* The step back shared by _backtrack_one_step (lines 158-169) and
\* _return_to_base (lines 185-196): pop the last walk and walk it backwards.
StepBack(cx) ==
    LET last == cx.a.walk_history[Len(cx.a.walk_history)]
        popped == [cx EXCEPT !.a = PopWalk(@)]
        w == DfsEnvWalk(popped, -last[1], -last[2])
    IN IF cx.a.walk_history = <<>> THEN DfsReturn(cx, FALSE)
       ELSE IF w[1] = "EXECUTED"
       THEN DfsReturn(At(LAMBDA c : UpdateCurrentCell(c, FALSE),
                [w[2] EXCEPT !.a.rel_x = @ - last[1], !.a.rel_y = @ - last[2],
                             !.a.steps_taken = @ + 1]), TRUE)
       ELSE DfsReturn(w[2], FALSE)

\* ExplorerDFS._backtrack_one_step
BacktrackOneStep(cx) == StepBack(cx)

\* ExplorerDFS._return_to_base
ReturnToBase(cx) ==
    IF cx.a.walk_history = <<>>
    THEN IF ~cx.a.finished
         THEN DfsReturn([cx EXCEPT !.a.finished = TRUE,
                                   !.cm = ReceiveReport(@, cx.a.name, cx.a.map,
                                              cx.a.found_victims,
                                              DOMAIN cx.a.found_victims)], FALSE)
         ELSE DfsReturn(cx, FALSE)
    ELSE StepBack(cx)

\* ExplorerDFS._next_direction: the untried list of the cell is made on demand.
WithUntried(cx) ==
    LET xy == <<cx.a.rel_x, cx.a.rel_y>>
    IN IF xy \in DOMAIN cx.a.untried THEN cx
       ELSE [cx EXCEPT !.a.untried = @ @@ (xy :> OrderedClearDirections(cx))]

\* ExplorerDFS.deliberate, lines 206-226, on a context whose untried list exists.
DfsExplore(cx) ==
    LET xy == <<cx.a.rel_x, cx.a.rel_y>>
        direction == Head(cx.a.untried[xy])
        taken == [cx EXCEPT !.a.untried[xy] = Tail(@)]
        w == DfsWalk(taken, AC_INCR[direction + 1][1], AC_INCR[direction + 1][2])
        back == BacktrackOneStep(cx)
    IN IF cx.a.untried[xy] # <<>>
       THEN IF w[1] = "TIME_EXCEEDED" THEN At(ReturnToBase, w[2])
            ELSE DfsReturn(w[2], TRUE)
       ELSE IF Len(cx.a.path_stack) <= 1
       THEN ReturnToBase([cx EXCEPT !.a.returning = TRUE])
       ELSE IF back.ret THEN back
       ELSE At(ReturnToBase, [back EXCEPT !.a.returning = TRUE])

\* ExplorerDFS.deliberate
DfsDeliberateCall(cx) ==
    IF cx.a.returning \/ ShouldStartReturn(cx)
    THEN ReturnToBase([cx EXCEPT !.a.returning = TRUE])
    ELSE At(DfsExplore, WithUntried(cx))

\* The context of a call of explorer i.
DfsContext(i) ==
    [a |-> dfs[i], rtime |-> arena.rtime[i], victim |-> arena.victim,
     base |-> arena.base, difficulty |-> arena.difficulty, walls |-> arena.walls,
     cm |-> [coord |-> coord, master |-> master], ret |-> TRUE]

\* The scheduler calls deliberate of an explorer that has not returned False.
DfsDeliberate(i) ==
    /\ arena.active[i]
    /\ \E r \in {At(DfsDeliberateCall, DfsContext(i))} :
          /\ dfs' = [dfs EXCEPT ![i] = r.a]
          /\ arena' = [arena EXCEPT !.rtime[i] = r.rtime, !.active[i] = r.ret]
          /\ coord' = r.cm.coord
          /\ master' = r.cm.master
    /\ UNCHANGED <<csvVars, workers, mission, mergeVars, explVars, rescVars, unifyVars,
                   pathVars>>

\* main(): the coordinator, the master registered with it, three explorers,
\* each constructed with _update_current_cell(initial=True) at the base.
MissionBuilt ==
    /\ dfs = [i \in Explorers |->
                UpdateCurrentCell([a |-> NewExplorerDFS(i), rtime |-> arena.tlim[i],
                                   victim |-> arena.victim, base |-> arena.base,
                                   difficulty |-> arena.difficulty,
                                   walls |-> arena.walls, cm |-> <<>>,
                                   ret |-> TRUE], TRUE).a]
    /\ coord = [total_explorers |-> TotalExplorers, explorer_reports |-> <<>>,
                explorer_names |-> [i \in Explorers |-> DfsName(i)],
                master |-> TRUE, global_map |-> <<>>, metrics |-> <<>>,
                finalized |-> 0]
    /\ master = [ready |-> FALSE, global_map |-> <<>>, victims |-> <<>>,
                 metrics |-> <<>>, state |-> "IDLE", prepared |-> 0]
    /\ workers = Idle /\ mission = Idle
    /\ IdleMerge /\ IdleExpl /\ IdleResc /\ IdleUnify /\ IdlePath /\ IdleCsv

\* The mission on even ground, under the time limits of the configuration files.
InitBarrier ==
    /\ arena \in {[victim |-> v, tlim |-> t, rtime |-> t, base |-> DfsBase,
                   difficulty |-> EvenGround, walls |-> {},
                   active |-> [i \in Explorers |-> TRUE]] :
                      v \in DfsVictimCells, t \in [Explorers -> DfsTlims]}
    /\ MissionBuilt

NextBarrier == \E i \in Explorers : DfsDeliberate(i)

SpecBarrier == InitBarrier /\ [][NextBarrier]_vars

\* Every explorer that has not returned False keeps being called.
SpecBarrierFair == SpecBarrier /\ \A i \in Explorers : WF_vars(DfsDeliberate(i))

\* Every explorer has stopped: its deliberate has returned False.
AllExplorersStopped == \A i \in Explorers : ~arena.active[i]

\* The coordinator has fused the maps and handed the mission to the master.
MissionHandedOver == coord.finalized > 0 /\ master.prepared > 0

\* C5: the coordinator fuses and calls prepare_mission at most once, and has
\* done so exactly when the total_explorers-th report is in; with fewer reports
\* global_map is empty and the master has not been prepared.
C5_Barrier ==
    /\ coord.finalized <= 1
    /\ master.prepared = coord.finalized
    /\ coord.finalized = 1 <=> Len(coord.explorer_reports) = TotalExplorers
    /\ Len(coord.explorer_reports) < TotalExplorers =>
          /\ coord.global_map = <<>>
          /\ ~master.ready
          /\ master.global_map = <<>>
          /\ master.state = "IDLE"

\* Witness of C5: the third report has come in and the master holds the fused
\* map of explorers that did explore.
C5_Witness ==
    /\ Len(coord.explorer_reports) = TotalExplorers
    /\ master.prepared = 1 /\ master.ready
    /\ master.global_map = <<coord.global_map>>
    /\ Cardinality(DOMAIN coord.global_map) > 1

\* C6: once every explorer has stopped, whether it reported, died or got stuck,
\* the coordinator eventually fuses what was collected and hands the mission to
\* the master.
C6_FusionNotBlocked == AllExplorersStopped ~> MissionHandedOver

(***************************************************************************)
(* RescuerAgent (agents/rescuer_agent.py): several rescuers built from one *)
(* UnifiedMap.  A map field holds a reference: ref says whether it points   *)
(* to the shared object or to an object of the agent's own, kept in value.  *)
(* A call is computed on a context c: the agent's fields (c.a), the shared *)
(* map object, the environment's time, body, walls and victims, the state  *)
(* set and the value returned.                                             *)
(***************************************************************************)
NumRescuers == 2
Rescuers == 1..NumRescuers

\* COST_FIRST_AID of the configuration file.
CostFirstAid == 2

\* The rescuers' grid is that of the path planner; the base is its corner.
RescBase == <<0, 0>>
\* The cells that may hold a wall the fused map does not know.
HiddenWallCells == {<<1, 0>>, <<1, 1>>}
\* The time limits of the rescuers' configuration files.
RescTlims == {1, 5, 60}

\* A copy() that hands back the object it was called on.
UnifiedMapSelf(m) == [ref |-> "shared", value |-> <<>>]

\* UnifiedMap.copy: a new object with copies of the sets and of the victims.
UnifiedMapCopy(m) ==
    [ref |-> "own",
     value |-> [base |-> m.base, visited |-> m.visited, obstacles |-> m.obstacles,
                victims |-> [vid \in DOMAIN m.victims |-> m.victims[vid]]]]

\* self._map, read through the reference.
WorkingMap(c) == IF c.a.map.ref = "shared" THEN c.shared ELSE c.a.map.value

\* A write to the object self._map refers to.
WithMap(c, m) ==
    IF c.a.map.ref = "shared" THEN [c EXCEPT !.shared = m]
    ELSE [c EXCEPT !.a.map.value = m]

\* sorted(shared_map.victims.keys())
RECURSIVE SortedIds(_)
SortedIds(S) ==
    IF S = {} THEN <<>>
    ELSE LET lo == CHOOSE x \in S : \A y \in S : x <= y
         IN <<lo>> \o SortedIds(S \ {lo})

\* RescuerAgent.__init__; registered records the cells _register_obstacle got,
\* attempted the destination of the move taken by the last deliberate call,
\* aids the victims of the aid actions carried out, in order.
NewRescuer(shared) ==
    [map |-> UnifiedMapCopy(shared), base |-> RescBase, initialized |-> FALSE,
     pos |-> RescBase, action_queue |-> <<>>,
     victim_order |-> SortedIds(DOMAIN shared.victims),
     completed_victims |-> {}, unreachable_victims |-> {},
     unable_to_return |-> FALSE, registered |-> {}, attempted |-> <<>>,
     outcome |-> "", aids |-> <<>>]

\* walk(dx, dy): <<result, context after the walk>>
RescEnvWalk(c, dx, dy) ==
    LET target == <<c.body[1] + dx, c.body[2] + dy>>
        left == c.rtime - WalkCost(dx, dy)
        res == IF target \in PathCells /\ target \notin c.walls
               THEN IF left < 0 THEN "TIME_EXCEEDED" ELSE "EXECUTED"
               ELSE "BUMPED"
    IN << res, [c EXCEPT !.rtime = left,
                         !.body = IF res = "EXECUTED" THEN target ELSE @] >>

\* first_aid(): <<result, context>>; the aid succeeds on a victim's cell.
RescEnvFirstAid(c) ==
    LET left == c.rtime - CostFirstAid
    IN << IF left < 0 THEN "TIME_EXCEEDED"
          ELSE IF c.body \in c.victims THEN "TRUE" ELSE "FALSE",
          [c EXCEPT !.rtime = left] >>

\* A planning loop that plans again the victims already marked unreachable.
RECURSIVE PlanVictimsAgain(_, _, _, _)
PlanVictimsAgain(c, victims, k, acc) ==
    IF k > Len(victims) THEN acc
    ELSE LET info == victims[k]
             path == FindPath(WorkingMap(c), acc.current, info.position)
         IN IF info.vid \in c.a.completed_victims
            THEN PlanVictimsAgain(c, victims, k + 1, acc)
            ELSE IF info.position \notin WorkingMap(c).visited \/ path = <<>>
            THEN PlanVictimsAgain(c, victims, k + 1,
                             [acc EXCEPT !.unreachable = @ \cup {info.vid}])
            ELSE PlanVictimsAgain(c, victims, k + 1,
                     [acc EXCEPT !.plan = @ \o PathToActions(path)
                                          \o <<[type |-> "aid", victim |-> info.vid]>>,
                                 !.current = info.position])

\* The for loop of _plan_sequence from the k-th victim on; acc holds plan,
\* current and the unreachable victims.
RECURSIVE PlanVictims(_, _, _, _)
PlanVictims(c, victims, k, acc_in) ==
    At(LAMBDA acc :
        IF k > Len(victims) THEN acc
        ELSE LET info == victims[k]
                 path == FindPath(WorkingMap(c), acc.current, info.position)
             IN IF info.vid \in c.a.completed_victims \/ info.vid \in acc.unreachable
                THEN PlanVictims(c, victims, k + 1, acc)
                ELSE IF info.position \notin WorkingMap(c).visited \/ path = <<>>
                THEN PlanVictims(c, victims, k + 1,
                                 [acc EXCEPT !.unreachable = @ \cup {info.vid}])
                ELSE PlanVictims(c, victims, k + 1,
                         [acc EXCEPT !.plan = @ \o PathToActions(path)
                                              \o <<[type |-> "aid", victim |-> info.vid]>>,
                                     !.current = info.position]),
       acc_in)

\* RescuerAgent._plan_sequence followed by the store of the plan in the queue.
PlanSequence(c_in, start, victims) ==
    At(LAMBDA c : At(LAMBDA acc :
        LET path_back == FindPath(WorkingMap(c), acc.current, c.a.base)
        IN [c EXCEPT !.a.unreachable_victims = acc.unreachable,
                     !.a.unable_to_return =
                         @ \/ (acc.current # c.a.base /\ path_back = <<>>),
                     !.a.action_queue =
                         IF acc.current # c.a.base /\ path_back # <<>>
                         THEN acc.plan \o PathToActions(path_back) ELSE acc.plan],
        PlanVictims(c, victims, 1,
                    [plan |-> <<>>, current |-> start,
                     unreachable |-> c.a.unreachable_victims])), c_in)

\* [self._map.victims[vid] for vid in order]
VictimInfos(c, order) == [k \in DOMAIN order |-> WorkingMap(c).victims[order[k]]]

\* RescuerAgent._initialize_plan
InitializePlan(c) ==
    IF c.a.initialized THEN c
    ELSE IF c.a.victim_order = <<>> THEN [c EXCEPT !.a.initialized = TRUE]
    ELSE PlanSequence([c EXCEPT !.a.initialized = TRUE], c.a.pos,
                      VictimInfos(c, c.a.victim_order))

\* A _register_obstacle that leaves the working map as it was.
RegisterObstacleForgotten(c, pos) == [c EXCEPT !.a.registered = @ \cup {pos}]

\* A _register_obstacle that adds the obstacle and leaves visited as it was.
RegisterObstacleKeepVisited(c, pos) ==
    [WithMap(c, [WorkingMap(c) EXCEPT !.obstacles = @ \cup {pos}])
        EXCEPT !.a.registered = @ \cup {pos}]

\* RescuerAgent._register_obstacle
RegisterObstacle(c, pos) ==
    [WithMap(c, [WorkingMap(c) EXCEPT !.obstacles = @ \cup {pos},
                                      !.visited = @ \ {pos}])
        EXCEPT !.a.registered = @ \cup {pos}]

\* RescuerAgent._refresh_plan
RefreshPlan(c_in) ==
    At(LAMBDA c :
        LET IsOpen(vid) == vid \notin c.a.completed_victims
        IN PlanSequence(c, c.a.pos, VictimInfos(c, SelectSeq(c.a.victim_order, IsOpen))),
       c_in)

\* set_state(s); return False
RescHalt(c, s) == [c EXCEPT !.state = s, !.ret = FALSE]

\* A queue head carried out by an agent that takes the step, and counts the
\* victim as rescued, even when the time ran out.
RescActRegardless(c) ==
    LET action == Head(c.a.action_queue)
        taken == [c EXCEPT !.a.action_queue = Tail(@),
                           !.a.attempted = IF action.type = "move"
                                           THEN <<action.dest>> ELSE <<>>,
                           !.a.aids = IF action.type = "aid"
                                      THEN Append(@, action.victim) ELSE @]
        w == RescEnvWalk(taken, action.dx, action.dy)
        f == RescEnvFirstAid(taken)
    IN IF action.type = "move"
       THEN IF w[1] = "BUMPED"
            THEN RefreshPlan(RegisterObstacle([w[2] EXCEPT !.a.outcome = w[1]],
                                              action.dest))
            ELSE IF w[1] = "TIME_EXCEEDED"
            THEN RescHalt([w[2] EXCEPT !.a.pos = action.dest, !.a.outcome = w[1]],
                          "DEAD")
            ELSE [w[2] EXCEPT !.a.pos = action.dest, !.a.outcome = w[1]]
       ELSE IF f[1] = "TIME_EXCEEDED"
            THEN RescHalt([f[2] EXCEPT !.a.outcome = f[1],
                                       !.a.completed_victims = @ \cup {action.victim}],
                          "DEAD")
            ELSE IF f[1] = "TRUE"
            THEN [f[2] EXCEPT !.a.outcome = f[1],
                              !.a.completed_victims = @ \cup {action.victim}]
            ELSE [f[2] EXCEPT !.a.outcome = f[1],
                              !.a.unreachable_victims = @ \cup {action.victim}]

\* deliberate, lines 56-81: the head of the queue is taken and carried out;
\* attempted and outcome note the destination of the move and what walk or
\* first_aid returned.
RescAct(c_in) ==
    At(LAMBDA c :
        LET action == Head(c.a.action_queue)
            taken == [c EXCEPT !.a.action_queue = Tail(@),
                               !.a.attempted = IF action.type = "move"
                                               THEN <<action.dest>> ELSE <<>>,
                               !.a.aids = IF action.type = "aid"
                                          THEN Append(@, action.victim) ELSE @]
            w == RescEnvWalk(taken, action.dx, action.dy)
            f == RescEnvFirstAid(taken)
        IN IF action.type = "move"
           THEN IF w[1] = "EXECUTED"
                THEN [w[2] EXCEPT !.a.pos = action.dest, !.a.outcome = w[1]]
                ELSE IF w[1] = "TIME_EXCEEDED"
                THEN RescHalt([w[2] EXCEPT !.a.outcome = w[1]], "DEAD")
                ELSE RefreshPlan(RegisterObstacle([w[2] EXCEPT !.a.outcome = w[1]],
                                                  action.dest))
           ELSE IF f[1] = "TIME_EXCEEDED"
                THEN RescHalt([f[2] EXCEPT !.a.outcome = f[1]], "DEAD")
                ELSE IF f[1] = "TRUE"
                THEN [f[2] EXCEPT !.a.outcome = f[1],
                                  !.a.completed_victims = @ \cup {action.victim}]
                ELSE [f[2] EXCEPT !.a.outcome = f[1],
                                  !.a.unreachable_victims = @ \cup {action.victim}],
       c_in)

\* A loop that, its queue empty, ends the agent wherever it stands.
RescLoopEndsAnywhere(c) ==
    IF c.a.action_queue # <<>> THEN RescAct(c) ELSE RescHalt(c, "ENDED")

\* A loop that, its queue empty and nothing left to do, returns True without
\* setting a state.
RescLoopNeverHalts(c) ==
    LET path_back == FindPath(WorkingMap(c), c.a.pos, c.a.base)
    IN IF c.a.action_queue # <<>> THEN RescAct(c)
       ELSE IF c.a.pos # c.a.base /\ ~c.a.unable_to_return
       THEN IF path_back # <<>>
            THEN RescAct([c EXCEPT !.a.action_queue = PathToActions(path_back)])
            ELSE [c EXCEPT !.a.unable_to_return = TRUE]
       ELSE c

\* deliberate, lines 41-54: the loop, entered with an empty or a filled queue.
RescLoop(c) ==
    LET path_back == FindPath(WorkingMap(c), c.a.pos, c.a.base)
    IN IF c.a.action_queue # <<>> THEN RescAct(c)
       ELSE IF c.a.pos # c.a.base /\ ~c.a.unable_to_return
       THEN IF path_back # <<>>
            THEN RescAct([c EXCEPT !.a.action_queue = PathToActions(path_back)])
            ELSE RescHalt([c EXCEPT !.a.unable_to_return = TRUE], "IDLE")
       ELSE RescHalt(c, IF c.a.pos = c.a.base THEN "ENDED" ELSE "IDLE")

\* RescuerAgent.deliberate
RescDeliberateCall(c) ==
    At(LAMBDA planned : IF planned.rtime < 0 THEN RescHalt(planned, "DEAD")
                        ELSE RescLoop(planned),
       InitializePlan(c))

\* The context of a call of rescuer i.
RescContext(i) ==
    [a |-> resc[i], shared |-> shared_map, rtime |-> world.rtime[i],
     body |-> world.body[i], walls |-> world.walls, victims |-> world.victims,
     state |-> world.state[i], ret |-> TRUE]

\* The scheduler calls deliberate of a rescuer that has not returned False.
RescDeliberate(i) ==
    /\ world.active[i]
    /\ \E r \in {RescDeliberateCall(RescContext(i))} :
          /\ resc' = [resc EXCEPT ![i] = r.a]
          /\ shared_map' = r.shared
          /\ world' = [world EXCEPT !.rtime[i] = r.rtime, !.body[i] = r.body,
                                    !.state[i] = r.state, !.active[i] = r.ret]
    /\ UNCHANGED <<csvVars, mergeVars, explVars, barrVars, unifyVars, pathVars>>

\* The fused maps handed to the rescuers: every cell visited, no obstacle
\* known, one victim in the far corner and perhaps a second one below it; or
\* the victim of the lower id reported on a cell that no explorer visited.
SharedMapChoices ==
    LET far == [vid |-> 1, position |-> <<PathW - 1, 0>>, signals |-> <<7>>,
                sources |-> {"explorer_1"}]
        below == [vid |-> 2, position |-> <<PathW - 1, 1>>, signals |-> <<>>,
                  sources |-> {"explorer_2"}]
    IN {[base |-> RescBase, visited |-> PathCells, obstacles |-> {}, victims |-> v] :
            v \in {(1 :> far), (1 :> far) @@ (2 :> below)}}
       \cup {[base |-> RescBase, visited |-> PathCells \ {below.position},
               obstacles |-> {},
               victims |-> (1 :> [below EXCEPT !.vid = 1])
                           @@ (2 :> [far EXCEPT !.vid = 2])]}

\* The rescuers are built one after the other from the same UnifiedMap; the
\* environment may hold walls the map does not know.
InitRescuer ==
    /\ shared_map \in SharedMapChoices
    /\ resc = [i \in Rescuers |-> NewRescuer(shared_map)]
    /\ world \in {[walls |-> w, victims |-> {<<PathW - 1, 0>>}, rtime |-> t,
                   body |-> [i \in Rescuers |-> RescBase],
                   state |-> [i \in Rescuers |-> "ACTIVE"],
                   active |-> [i \in Rescuers |-> TRUE]] :
                      w \in SUBSET HiddenWallCells, t \in [Rescuers -> RescTlims]}
    /\ IdleMerge /\ IdleExpl /\ IdleBarr /\ IdleUnify /\ IdlePath /\ IdleCsv

NextRescuer == \E i \in Rescuers : RescDeliberate(i)

SpecRescuer == InitRescuer /\ [][NextRescuer]_vars

\* The map was stale and goes on being so: a cell of the corridor that no
\* rescuer stands on is blocked from now on.
WallAppears ==
    /\ world # Idle
    /\ \E cell \in HiddenWallCells \ (world.walls \cup Range(world.body)) :
          world' = [world EXCEPT !.walls = @ \cup {cell}]
    /\ UNCHANGED <<shared_map, resc, csvVars, mergeVars, explVars, barrVars, unifyVars,
                   pathVars>>

NextShifting == NextRescuer \/ WallAppears

\* The rescuers in an environment whose corridor may close behind them.
SpecShifting == InitRescuer /\ [][NextShifting]_vars

\* The working map of rescuer j, read through its reference.
WorkingMapOf(j) ==
    IF resc[j].map.ref = "shared" THEN shared_map ELSE resc[j].map.value

\* C7: no step of any rescuer changes the shared UnifiedMap, and every obstacle
\* of a rescuer's working map was in the shared map or was registered by that
\* rescuer itself, never by another one.
C7_SharedMapReadOnly ==
    /\ [][shared_map' = shared_map]_vars
    /\ [](\A j \in Rescuers :
            WorkingMapOf(j).obstacles \subseteq
                shared_map.obstacles \cup resc[j].registered)

\* Witness of C7: one rescuer has bumped and registered an obstacle that another
\* rescuer, already on its way, does not have in its map.
C7_Witness ==
    \E i, j \in Rescuers :
        /\ i # j
        /\ resc[i].registered \ WorkingMapOf(j).obstacles # {}
        /\ resc[j].initialized /\ world.body[j] # RescBase
        /\ resc[i].registered \cap shared_map.obstacles = {}

\* The destinations of the move actions in the queue of rescuer i.
QueuedDestinations(i) ==
    {resc[i].action_queue[k].dest :
        k \in {n \in DOMAIN resc[i].action_queue :
                  resc[i].action_queue[n].type = "move"}}

\* C11: a cell on which a move of a rescuer bumped is an obstacle of its working
\* map from then on, no queued move has a registered obstacle as destination,
\* and no later deliberate call of that rescuer takes a move towards one.
C11_NoRevisitOfObstacle ==
    /\ [](\A i \in Rescuers :
            /\ resc[i].registered \subseteq WorkingMapOf(i).obstacles
            /\ QueuedDestinations(i) \cap resc[i].registered = {})
    /\ [][\A i \in Rescuers :
            (resc'[i] # resc[i] /\ resc'[i].attempted # <<>>) =>
                resc'[i].attempted[1] \notin resc[i].registered]_vars

\* Witness of C11: a rescuer that registered an obstacle has replanned and has
\* since moved on to another cell, with moves still queued.
C11_Witness ==
    \E i \in Rescuers :
        /\ resc[i].registered # {}
        /\ resc[i].attempted # <<>>
        /\ resc[i].attempted[1] \notin resc[i].registered
        /\ world.body[i] = resc[i].attempted[1]
        /\ QueuedDestinations(i) # {}

(***************************************************************************)
(* RescuerMaster._cluster_victims (sma/tarefa2/rescuer.py).  The floats    *)
(* are kept exact: a normalized feature of column c is a numerator over    *)
(* Span[c] * Scale, where Span[c] is max - min of the column (1 when they  *)
(* are equal) and Scale is a multiple of every possible cluster size, so   *)
(* that the mean of any cluster is a whole numerator too.                  *)
(***************************************************************************)
\* for _ in range(100)
IterationCap == 100

Columns == 1..4

Min2(a, b) == IF a < b THEN a ELSE b
SetMin(S) == CHOOSE x \in S : \A y \in S : x <= y
SetMax(S) == CHOOSE x \in S : \A y \in S : x >= y

RECURSIVE Factorial(_)
Factorial(n) == IF n <= 1 THEN 1 ELSE n * Factorial(n - 1)

RECURSIVE SeqSum(_)
SeqSum(q) == IF q = <<>> THEN 0 ELSE Head(q) + SeqSum(Tail(q))

\* features of line 119: [x, y, float(tri), float(sobr)]
Features(victims) ==
    [i \in DOMAIN victims |->
        <<victims[i].position[1], victims[i].position[2], victims[i].tri,
          victims[i].sobr>>]

\* max - min of column c, 1 for a column of equal values.
Span(features, c) ==
    LET col == {features[i][c] : i \in DOMAIN features}
    IN IF SetMax(col) = SetMin(col) THEN 1 ELSE SetMax(col) - SetMin(col)

\* RescuerMaster._normalize_features: numerators over Span * Scale.
NormalizeFeatures(features) ==
    LET scale == Factorial(Len(features))
    IN [i \in DOMAIN features |->
          [c \in Columns |->
             LET col == {features[j][c] : j \in DOMAIN features}
             IN IF SetMax(col) = SetMin(col) THEN 0
                ELSE (features[i][c] - SetMin(col)) * scale]]

\* sum((p - c) ** 2 ...) of line 134, brought to the common denominator.
SquaredDistance(point, centroid, spans) ==
    LET weight(c) == LET others == [d \in Columns |-> IF d = c THEN 1 ELSE spans[d]]
                     IN (others[1] * others[2] * others[3] * others[4])
        term(c) == (point[c] - centroid[c]) * (point[c] - centroid[c])
                   * weight(c) * weight(c)
    IN term(1) + term(2) + term(3) + term(4)

\* distances.index(min(distances)), as a cluster index from 0.
BestCluster(point, centroids, spans) ==
    LET distances == [j \in DOMAIN centroids |->
                         SquaredDistance(point, centroids[j], spans)]
        least == SetMin({distances[j] : j \in DOMAIN distances})
    IN SetMin({j \in DOMAIN distances : distances[j] = least}) - 1

\* centroids of lines 123-127: the first nb_clusters shuffled samples, the last
\* one repeated when there are fewer.
InitialCentroids(normalized, indices, nb_clusters) ==
    LET taken == Min2(nb_clusters, Len(indices))
    IN [j \in 1..nb_clusters |->
           normalized[indices[IF j <= taken THEN j ELSE taken]]]

\* The update step, lines 140-147.
NewCentroids(normalized, assignments, centroids) ==
    [j \in DOMAIN centroids |->
        LET members == SelectSeq([i \in DOMAIN normalized |-> i],
                                 LAMBDA i : assignments[i] = j - 1)
        IN IF members = <<>> THEN centroids[j]
           ELSE [c \in Columns |->
                    SeqSum([m \in DOMAIN members |-> normalized[members[m]][c]])
                        \div Len(members)]]

\* The loop of lines 130-150, from round n on: the assignments it leaves.
RECURSIVE KMeansLoop(_, _, _, _, _)
KMeansLoop(n, normalized, spans, assignments, centroids) ==
    IF n > IterationCap THEN assignments
    ELSE LET assigned == [i \in DOMAIN normalized |->
                             BestCluster(normalized[i], centroids, spans)]
         IN IF assigned = assignments THEN assigned
            ELSE KMeansLoop(n + 1, normalized, spans, assigned,
                            NewCentroids(normalized, assigned, centroids))

\* A grouping that makes a group only for the clusters in use.
ClusterGroupsUsedOnly(victims, assignments, nb_clusters) ==
    [j \in {assignments[i] : i \in DOMAIN assignments} |->
        SelectSeq(victims, LAMBDA v : \E i \in DOMAIN victims :
                                         victims[i] = v /\ assignments[i] = j)]

\* clusters of lines 152-155: cluster index -> its victims, in input order.
ClusterGroups(victims, assignments, nb_clusters) ==
    [j \in 0..(nb_clusters - 1) |->
        LET members == SelectSeq([i \in DOMAIN victims |-> i],
                                 LAMBDA i : assignments[i] = j)
        IN [m \in DOMAIN members |-> victims[members[m]]]]

\* RescuerMaster._cluster_victims; indices is the list rng.shuffle left.
ClusterVictims(victims, nb_clusters, indices) ==
    IF victims = <<>> THEN [j \in 0..(nb_clusters - 1) |-> <<>>]
    ELSE LET features == Features(victims)
             normalized == NormalizeFeatures(features)
             spans == [c \in Columns |-> Span(features, c)]
         IN ClusterGroups(victims,
                KMeansLoop(1, normalized, spans, [i \in DOMAIN victims |-> 0],
                           InitialCentroids(normalized, indices, nb_clusters)),
                nb_clusters)

(***************************************************************************)
(* RescuerMaster.deliberate and RescuerWorker.deliberate: the clusters are *)
(* made, assigned round-robin to the pool [master] + workers, and each     *)
(* worker processes what it holds.  Rescuer 0 is the master.               *)
(***************************************************************************)
MaxVictims == 3
MaxClusters == 4
MaxWorkers == 2

\* The victims the coordinator may hand over: position, triage, survival.
VictimPool ==
    {[position |-> <<0, 0>>, tri |-> 1, sobr |-> 0],
     [position |-> <<2, 0>>, tri |-> 1, sobr |-> 1],
     [position |-> <<2, 0>>, tri |-> 3, sobr |-> 1],
     [position |-> <<1, 3>>, tri |-> 2, sobr |-> 0],
     [position |-> <<5, 3>>, tri |-> 3, sobr |-> 2]}

\* The victim lists: the k-th victim of a list has id k.
VictimLists ==
    UNION {{[k \in 1..n |-> [id |-> k, position |-> q[k].position,
                             tri |-> q[k].tri, sobr |-> q[k].sobr]] :
               q \in [1..n -> VictimPool]} : n \in 0..MaxVictims}

\* The orders rng.shuffle may leave the indices 1..n in.
Shuffles(n) == {f \in [1..n -> 1..n] : \A i, j \in 1..n : f[i] = f[j] => i = j}

\* RescuerBase.__init__ and RescuerMaster.__init__; stopped is the scheduler's
\* note that deliberate has returned False.
NewMaster(k) ==
    [ready |-> FALSE, global_map |-> <<>>, victims |-> <<>>, metrics |-> <<>>,
     state |-> "IDLE", prepared |-> 0, pending_assignment |-> <<>>,
     nb_clusters |-> k, stopped |-> FALSE]

\* RescuerBase.__init__ of a worker.
NewWorker == [pending_assignment |-> <<>>, state |-> "IDLE", stopped |-> FALSE]

\* RescuerBase.receive_assignment
ReceiveAssignment(w, assignment) ==
    [w EXCEPT !.pending_assignment = <<assignment>>, !.state = "ACTIVE"]

\* The loop of _assign_clusters from cluster idx on; t holds the master, the
\* workers and the assignments made so far.
RECURSIVE AssignLoop(_, _, _)
AssignLoop(t, clusters, idx) ==
    IF idx >= t.master.nb_clusters THEN t
    ELSE LET pool == 1 + Len(t.workers)
             rescuer == idx % pool
             assignment == [cluster_id |-> idx + 1,
                            victims |-> IF idx \in DOMAIN clusters
                                        THEN clusters[idx] ELSE <<>>]
             made == [t EXCEPT !.assignments =
                          Append(@, [rescuer |-> rescuer, assignment |-> assignment])]
         IN AssignLoop(IF rescuer = 0
                       THEN [made EXCEPT !.master.pending_assignment = <<assignment>>]
                       ELSE [made EXCEPT !.workers[rescuer] =
                                 ReceiveAssignment(@, assignment)],
                       clusters, idx + 1)

\* RescuerMaster._assign_clusters
AssignClusters(t, clusters) == AssignLoop(t, clusters, 0)

\* RescuerMaster._print_summary, lines 197-200.
PrintSummary(t) ==
    [t EXCEPT !.master.pending_assignment = <<>>,
              !.workers = [w \in DOMAIN t.workers |->
                              IF t.workers[w].pending_assignment = <<>>
                              THEN [t.workers[w] EXCEPT !.state = "ENDED"]
                              ELSE t.workers[w]]]

\* RescuerMaster.deliberate, called by the scheduler while the master is ACTIVE.
MasterDeliberate ==
    /\ master.state = "ACTIVE" /\ ~master.stopped
    /\ \E clusters \in {ClusterVictims(master.victims, master.nb_clusters,
                                       mission.shuffle)} :
       \E t \in {PrintSummary(AssignClusters(
                    [master |-> master, workers |-> workers, assignments |-> <<>>],
                    clusters))} :
          IF master.ready
          THEN /\ master' = [t.master EXCEPT !.ready = FALSE, !.stopped = TRUE]
               /\ workers' = t.workers
               /\ mission' = [mission EXCEPT !.clusters = <<clusters>>,
                                             !.created = t.assignments]
          ELSE /\ master' = [master EXCEPT !.stopped = TRUE]
               /\ UNCHANGED <<workers, mission>>
    /\ UNCHANGED <<csvVars, arena, dfs, coord, mergeVars, explVars, rescVars, unifyVars,
                   pathVars>>

\* RescuerWorker.deliberate, called by the scheduler while the worker is ACTIVE.
WorkerDeliberate(w) ==
    /\ w \in DOMAIN workers
    /\ workers[w].state = "ACTIVE" /\ ~workers[w].stopped
    /\ IF workers[w].pending_assignment = <<>>
       THEN /\ workers' = [workers EXCEPT ![w].state = "ENDED", ![w].stopped = TRUE]
            /\ UNCHANGED mission
       ELSE /\ workers' = [workers EXCEPT ![w].pending_assignment = <<>>,
                                          ![w].stopped = TRUE]
            /\ mission' = [mission EXCEPT !.processed =
                              Append(@, [rescuer |-> w,
                                         assignment |->
                                             workers[w].pending_assignment[1]])]
    /\ UNCHANGED <<csvVars, arena, dfs, coord, master, mergeVars, explVars, rescVars,
                   unifyVars, pathVars>>

\* The coordinator has called prepare_mission on the master with a victim
\* list; the workers wait for their assignments.
InitMission ==
    /\ \E victims \in VictimLists, k \in 1..MaxClusters :
          /\ master = PrepareMission(NewMaster(k), <<>>, victims, <<>>)
          /\ mission \in {[shuffle |-> f, clusters |-> <<>>, created |-> <<>>,
                           processed |-> <<>>] : f \in Shuffles(Len(victims))}
    /\ workers \in {[w \in 1..n |-> NewWorker] : n \in 0..MaxWorkers}
    /\ arena = Idle /\ dfs = Idle /\ coord = Idle
    /\ IdleMerge /\ IdleExpl /\ IdleResc /\ IdleUnify /\ IdlePath /\ IdleCsv

NextMission == MasterDeliberate \/ \E w \in 1..MaxWorkers : WorkerDeliberate(w)

SpecMission == InitMission /\ [][NextMission]_vars

\* The places <<group, index>> of the clusters at which victim id sits.
PlacesOf(clusters, id) ==
    {pl \in UNION {{<<g, j>> : j \in DOMAIN clusters[g]} : g \in DOMAIN clusters} :
        clusters[pl[1]][pl[2]].id = id}

\* C12: _cluster_victims returns exactly k groups keyed 0..k-1, whatever the
\* victim list (empty, shorter than k, longer than k), and every victim of the
\* list sits in exactly one group, exactly once; no group holds anything else.
C12_ExactlyKGroups ==
    mission.clusters # <<>> =>
        LET clusters == mission.clusters[1]
            k == master.nb_clusters
        IN /\ DOMAIN clusters = 0..(k - 1)
           /\ \A id \in 1..Len(master.victims) :
                 /\ Cardinality(PlacesOf(clusters, id)) = 1
                 /\ \A pl \in PlacesOf(clusters, id) :
                       clusters[pl[1]][pl[2]] = master.victims[id]
           /\ \A g \in DOMAIN clusters : \A j \in DOMAIN clusters[g] :
                 clusters[g][j] \in Range(master.victims)

\* The list is shorter than k, so a group is empty, and another run (not this
\* state) has more victims than groups.
C12_Witness ==
    /\ mission.clusters # <<>>
    /\ Len(master.victims) = 2 /\ master.nb_clusters = 3
    /\ \E g \in DOMAIN mission.clusters[1] : mission.clusters[1][g] = <<>>
    /\ \E g \in DOMAIN mission.clusters[1] : mission.clusters[1][g] # <<>>

(***************************************************************************)
(* write_map_csv and read_map_csv (agents/map_structures.py).  A field of  *)
(* the file is a text: Blank is the empty text csv.writer puts for None,   *)
(* IntText(n) the decimal text of an int, FloatText(v) the repr of a       *)
(* float, StrText(s) a string written as it is, and JsonText(v) the text   *)
(* json.dumps gives for v.  A JSON array is read back as a Python list,    *)
(* [list |-> ...], which is not a tuple.                                   *)
(***************************************************************************)
MaxRecords == 2
CsvCells == {<<0, 0>>, <<0, 1>>}
CsvAgent == "EXP1"
\* The agent names the record functions are called with.
CsvAgents == {"EXP1", "EXP2"}

Blank == <<>>
IntText(n) == <<"int", n>>
FloatText(v) == <<"float", v>>
StrText(str) == <<"str", str>>
JsonText(v) == <<"json", v>>

\* value not in ("", "None", None)
Filled(text) == text # Blank
\* int(text), float(text)
ParseInt(text) == text[2]
ParseFloat(text) == text[2]
\* json.loads(text)
JsonLoads(text) == text[2]

\* (x, y) < (u, v) in Python's order of tuples
CoordBefore(a, b) == a[1] < b[1] \/ (a[1] = b[1] /\ a[2] < b[2])

\* sorted(list(coords))
RECURSIVE SortedCoords(_)
SortedCoords(coords) ==
    IF coords = {} THEN <<>>
    ELSE LET first == CHOOSE a \in coords : \A b \in coords \ {a} : CoordBefore(a, b)
         IN <<first>> \o SortedCoords(coords \ {first})

\* NeighborSet.to_json: json.dumps writes each tuple as an array.
NeighborsToJson(coords) ==
    LET sorted == SortedCoords(coords)
    IN JsonText([i \in DOMAIN sorted |-> [list |-> sorted[i]]])

\* VitalSigns.to_json
VitalsToJson(values) == JsonText(values)

\* None if v is None else int(v) / float(v), as csv.writer writes it.
OptIntText(opt) == IF opt = <<>> THEN Blank ELSE IntText(opt[1])
OptFloatText(opt) == IF opt = <<>> THEN Blank ELSE FloatText(opt[1])

\* _row_from_cell(agent, xy, cell)
RowFromCell(agent, xy, cell) ==
    [agent |-> StrText(agent),
     x |-> IntText(xy[1]), y |-> IntText(xy[2]),
     status |-> StrText(cell.status),
     visited |-> IntText(IF cell.visited THEN 1 ELSE 0),
     last_seen_step |-> IntText(cell.last_seen_step),
     floor_factor |-> OptFloatText(cell.floor_factor),
     victim_present |-> IntText(IF cell.victim_present THEN 1 ELSE 0),
     victim_id |-> OptIntText(cell.victim_id),
     vitals_read |-> IntText(IF cell.vitals_read THEN 1 ELSE 0),
     read_step |-> OptIntText(cell.read_step),
     vitals_raw |-> IF cell.vitals_raw # <<>>
                    THEN VitalsToJson(cell.vitals_raw) ELSE JsonText(<<>>),
     g_cost |-> OptFloatText(cell.g_cost),
     parent_x |-> IF cell.parent = <<>> THEN Blank ELSE IntText(cell.parent[1][1]),
     parent_y |-> IF cell.parent = <<>> THEN Blank ELSE IntText(cell.parent[1][2]),
     neighbors_clear |-> IF cell.neighbors_clear # {}
                         THEN NeighborsToJson(cell.neighbors_clear)
                         ELSE JsonText(<<>>)]

\* iter_csv_rows and write_map_csv: one row per cell whose status is not
\* unknown (the order of the rows plays no part in reading them).
WriteMapCsv(agent, grid) ==
    {RowFromCell(agent, xy, grid[xy]) :
        xy \in {k \in DOMAIN grid : grid[k].status # "unknown"}}

\* NeighborSet.__init__(coords): set(coords) raises TypeError on a list,
\* which is unhashable; a tuple is kept.
NeighborSetOf(coords) ==
    IF coords = <<>> THEN [raised |-> FALSE, coords |-> {}]
    ELSE IF \E i \in DOMAIN coords : DOMAIN coords[i] = {"list"}
         THEN [raised |-> TRUE, coords |-> {}]
         ELSE [raised |-> FALSE, coords |-> Range(coords)]

\* The body of read_map_csv's loop: the CellInfo built from one row.
CellFromRow(row) ==
    LET px == IF Filled(row.parent_x) THEN <<ParseInt(row.parent_x)>> ELSE <<>>
        py == IF Filled(row.parent_y) THEN <<ParseInt(row.parent_y)>> ELSE <<>>
        neighbors == NeighborSetOf(JsonLoads(row.neighbors_clear))
    IN [NewCell EXCEPT
           !.status = row.status[2],
           !.visited = (ParseInt(row.visited) # 0),
           !.last_seen_step = IF Filled(row.last_seen_step)
                              THEN ParseInt(row.last_seen_step) ELSE -1,
           !.floor_factor = IF Filled(row.floor_factor)
                            THEN <<ParseFloat(row.floor_factor)>> ELSE <<>>,
           !.g_cost = IF Filled(row.g_cost) THEN <<ParseFloat(row.g_cost)>> ELSE <<>>,
           !.parent = IF px # <<>> /\ py # <<>> THEN <<<<px[1], py[1]>>>> ELSE <<>>,
           !.victim_present = (ParseInt(row.victim_present) # 0),
           !.victim_id = IF Filled(row.victim_id)
                         THEN <<ParseInt(row.victim_id)>> ELSE <<>>,
           !.vitals_read = (ParseInt(row.vitals_read) # 0),
           !.read_step = IF Filled(row.read_step)
                         THEN <<ParseInt(row.read_step)>> ELSE <<>>,
           !.vitals_raw = JsonLoads(row.vitals_raw),
           !.neighbors_clear = IF neighbors.raised THEN {} ELSE neighbors.coords]

\* read_map_csv
ReadMapCsv(file) ==
    LET at(row) == <<ParseInt(row.x), ParseInt(row.y)>>
    IN [xy \in {at(row) : row \in file} |->
           CellFromRow(CHOOSE row \in file : at(row) = xy)]

\* csv.grid is filled by the three record functions, written once and read
\* back; csv.log lists the record calls made: the agent name given and the
\* cells the call wrote to.
InitCsv ==
    /\ csv = [grid |-> <<>>, step |-> 0, file |-> <<>>, loaded |-> <<>>,
              log |-> <<>>]
    /\ IdleMerge /\ IdleExpl /\ IdleBarr /\ IdleResc /\ IdleUnify /\ IdlePath

CsvFrame == UNCHANGED <<mergeVars, explVars, barrVars, rescVars, unifyVars, pathVars>>

CsvRecording == csv.file = <<>> /\ csv.step < MaxRecords

CsvRecordCell ==
    /\ CsvRecording
    /\ \E agent \in CsvAgents, xy \in CsvCells, status \in {"clear", "wall"},
          floor_factor \in {<<>>, <<2>>}, g_cost \in {<<>>, <<3>>},
          parent \in {<<>>, <<<<0, 1>>>>} :
          csv' = [csv EXCEPT !.step = @ + 1,
                             !.log = Append(@, [agent |-> agent, cells |-> {xy}]),
                             !.grid = RecordCellWith(agent, @, xy, status,
                                                     csv.step + 1, floor_factor,
                                                     g_cost, parent)]
    /\ CsvFrame

CsvRecordNeighbors ==
    /\ CsvRecording
    /\ \E agent \in CsvAgents, xy \in CsvCells,
          status \in {"clear", "wall", "out_of_bounds"} :
          csv' = [csv EXCEPT !.step = @ + 1,
                             !.log = Append(@, [agent |-> agent,
                                                cells |-> CsvCells \ {xy}]),
                             !.grid = RecordNeighbors(agent, @, xy,
                                          [n \in CsvCells \ {xy} |-> status],
                                          csv.step + 1)]
    /\ CsvFrame

CsvRecordVictim ==
    /\ CsvRecording
    /\ \E agent \in CsvAgents, xy \in CsvCells, vitals_read \in BOOLEAN,
          vitals_raw \in {<<>>, <<5, 7>>} :
          csv' = [csv EXCEPT !.step = @ + 1,
                             !.log = Append(@, [agent |-> agent, cells |-> {xy}]),
                             !.grid = RecordVictim(agent, @, xy, 1, vitals_read,
                                                   csv.step + 1, vitals_raw)]
    /\ CsvFrame

CsvWrite ==
    /\ csv.file = <<>>
    /\ csv' = [csv EXCEPT !.file = <<WriteMapCsv(CsvAgent, csv.grid)>>]
    /\ CsvFrame

CsvRead ==
    /\ csv.file # <<>> /\ csv.loaded = <<>>
    /\ csv' = [csv EXCEPT !.loaded = <<ReadMapCsv(csv.file[1])>>]
    /\ CsvFrame

NextCsv == CsvRecordCell \/ CsvRecordNeighbors \/ CsvRecordVictim \/ CsvWrite \/ CsvRead

SpecCsv == InitCsv /\ [][NextCsv]_vars

\* The cells write_map_csv writes.
KnownCells(grid) == {xy \in DOMAIN grid : grid[xy].status # "unknown"}

\* C13: a map written with write_map_csv and read back with read_map_csv has,
\* for every cell whose status is not unknown, a CellInfo equal to the
\* original in every field, neighbors_clear and discovered_by included.
C13_RoundTrip ==
    csv.loaded # <<>> =>
        \A xy \in KnownCells(csv.grid) :
            /\ xy \in DOMAIN csv.loaded[1]
            /\ csv.loaded[1][xy] = csv.grid[xy]

\* The fields that do come back: all but neighbors_clear and discovered_by.
C13_OtherFieldsRoundTrip ==
    csv.loaded # <<>> =>
        /\ DOMAIN csv.loaded[1] = KnownCells(csv.grid)
        /\ \A xy \in KnownCells(csv.grid) :
              csv.loaded[1][xy] = [csv.grid[xy] EXCEPT !.neighbors_clear = {},
                                                      !.discovered_by = ""]

(***************************************************************************)
(* ExplorerAgent: the return to the base and the blocked forward move.     *)
(***************************************************************************)
\* The last deliberate call was in return mode and its greedy step, from
\* another cell, was executed and put the agent on the base cell.
SteppedOntoBase ==
    /\ \E i \in DOMAIN trace.walks :
          /\ trace.walks[i].mode = "greedy" /\ trace.walks[i].res = "EXECUTED"
          /\ trace.walks[i].from # BasePos
    /\ ex.returning
    /\ ex.pos = ex.base /\ body = BasePos

\* C14: a returning ExplorerAgent whose move puts it on the base cell is halted
\* by that deliberate call in the ENDED state.
C14_ReturnOntoBaseEnds == SteppedOntoBase => (Halted /\ state = "ENDED")

\* What the code does instead: the call halts the agent, in the IDLE state.
C14_ReturnOntoBaseIdles == SteppedOntoBase => (Halted /\ state = "IDLE")

\* The runs in which the map the probe gives is stale: one or two cells are
\* blocked although check_walls_and_lim reports them CLEAR, so that a forward
\* move can be refused.
StaleCells == {<<1, 1>>, <<1, 2>>, <<2, 1>>}
StaleTlims == {20, 32}

StaleScenarios ==
    [walls : {NoWalls}, victim : {VictimPos},
     tlim : StaleTlims, hidden : (SUBSET StaleCells) \ {{}, StaleCells}]

InitStale ==
    /\ env \in StaleScenarios
    /\ ex = NewExplorer
    /\ rtime = env.tlim
    /\ body = BasePos
    /\ state = "ACTIVE"
    /\ trace = [ret |-> TRUE, walks |-> <<>>, reads |-> 0, before |-> env.tlim]
    /\ IdleMerge /\ IdleBarr /\ IdleResc /\ IdleUnify /\ IdlePath /\ IdleCsv

SpecStale == InitStale /\ [][NextExplorer]_vars

\* The agent as it is when deliberate reaches the choice of the forward move:
\* after the lazy initialization, the visit mark and the neighbour scan.
AtTheMove == SenseNeighbors(Prelude(LazyInit(Context)))

\* C15: when, not returning, the forward move of a deliberate call is refused
\* with BUMPED, the call leaves the position (the agent's and the body's), the
\* DFS stack and the visited set as they were when the move was attempted, adds
\* the target to obstacles_found, sets no terminal state and returns True.
C15_BlockedForwardMove ==
    [][\A i \in DOMAIN trace'.walks :
          (trace'.walks[i].mode = "forward" /\ trace'.walks[i].res = "BUMPED") =>
              LET walk == trace'.walks[i]
                  target == <<walk.from[1] + walk.dx, walk.from[2] + walk.dy>>
              IN /\ ex'.pos = AtTheMove.a.pos /\ ex'.pos = walk.from
                 /\ body' = body
                 /\ ex'.stack = AtTheMove.a.stack
                 /\ ex'.visited = AtTheMove.a.visited
                 /\ target \notin ex'.visited
                 /\ ex'.obstacles_found = AtTheMove.a.obstacles_found \cup {target}
                 /\ ~ex'.returning
                 /\ state' = "ACTIVE" /\ trace'.ret]_vars

\* Witness of C15: the last call's forward move was refused and the agent is
\* still active, the refused cell among its obstacles.
C15_Witness ==
    /\ \E i \in DOMAIN trace.walks :
          /\ trace.walks[i].mode = "forward" /\ trace.walks[i].res = "BUMPED"
          /\ <<trace.walks[i].from[1] + trace.walks[i].dx,
               trace.walks[i].from[2] + trace.walks[i].dy>> \in ex.obstacles_found
    /\ state = "ACTIVE" /\ trace.ret
    /\ ex.pos = body

(***************************************************************************)
(* RescuerAgent: how a rescuer halts when its action queue is empty.       *)
(***************************************************************************)
\* Rescuer i has halted otherwise than by running out of time.
HaltedOnEmptyQueue(i) == ~world.active[i] /\ world.state[i] # "DEAD"

\* The working map of rescuer i holds a path from its position to the base.
WayBack(i) == FindPath(WorkingMapOf(i), resc[i].pos, resc[i].base) # <<>>

\* C16: a rescuer halts (other than DEAD) only with its queue empty, in ENDED
\* exactly when it is at the base and in IDLE exactly when it is away from the
\* base and its working map holds no path back; it never halts away from the
\* base while its map holds such a path.
C16_HaltOnEmptyQueue ==
    \A i \in Rescuers :
        HaltedOnEmptyQueue(i) =>
            /\ resc[i].action_queue = <<>>
            /\ world.state[i] \in {"ENDED", "IDLE"}
            /\ world.state[i] = "ENDED" <=> resc[i].pos = resc[i].base
            /\ world.state[i] = "IDLE" <=> (resc[i].pos # resc[i].base /\ ~WayBack(i))
            /\ resc[i].pos # resc[i].base => ~WayBack(i)
            /\ world.body[i] = resc[i].pos

\* Witness of C16: one rescuer has ended at the base after leaving it, another
\* is idle away from the base, cut off.
C16_Witness ==
    \E i, j \in Rescuers :
        /\ HaltedOnEmptyQueue(i) /\ world.state[i] = "ENDED"
        /\ resc[i].completed_victims # {}
        /\ HaltedOnEmptyQueue(j) /\ world.state[j] = "IDLE"
        /\ resc[j].pos # resc[j].base /\ ~WayBack(j)

(***************************************************************************)
(* RescuerMaster / RescuerWorker: what becomes of the ClusterAssignments.  *)
(***************************************************************************)
\* pending_assignment of rescuer r of the pool; 0 is the master.
PendingOf(r) ==
    IF r = 0 THEN master.pending_assignment ELSE workers[r].pending_assignment

\* How many times the deliberate of its rescuer has processed assignment e.
TimesProcessed(e) ==
    Cardinality({n \in DOMAIN mission.processed : mission.processed[n] = e})

\* C17: each ClusterAssignment the master created is consumed exactly once by
\* the rescuer it was assigned to: until that rescuer's deliberate has
\* processed it, it is that rescuer's pending assignment (not overwritten, not
\* cleared), and it is never processed twice.
C17_AssignmentsConsumedOnce ==
    \A n \in DOMAIN mission.created :
        LET e == mission.created[n]
        IN /\ TimesProcessed(e) <= 1
           /\ TimesProcessed(e) = 0 => PendingOf(e.rescuer) = <<e.assignment>>

\* The same for the assignments of the workers alone.
C17_WorkerAssignmentsConsumedOnce ==
    \A n \in DOMAIN mission.created :
        LET e == mission.created[n]
        IN e.rescuer # 0 =>
              /\ TimesProcessed(e) <= 1
              /\ TimesProcessed(e) = 0 => PendingOf(e.rescuer) = <<e.assignment>>

(***************************************************************************)
(* MapSynchronizer.merge: the victim registry.                             *)
(***************************************************************************)
\* The reports of victim vid in the local maps, in merge order.
RECURSIVE ReportsIn(_, _)
ReportsIn(locals, vid) ==
    IF locals = <<>> THEN <<>>
    ELSE LET IsVid(info) == info.vid = vid
         IN SelectSeq(Head(locals).victims, IsVid) \o ReportsIn(Tail(locals), vid)

ReportsOf(vid) == ReportsIn(local_maps, vid)

\* Those of the reports whose position lies inside the grid.
InGrid(reports) == LET Inside(info) == Within(info.position) IN SelectSeq(reports, Inside)

\* The signals of the first report that has any; empty if none has.
FirstSignals(reports) ==
    LET HasSignals(info) == info.signals # <<>>
        with == SelectSeq(reports, HasSignals)
    IN IF with = <<>> THEN <<>> ELSE with[1].signals

AllSources(reports) == UNION {reports[n].sources : n \in DOMAIN reports}

C19_PositionImmutable ==
    unified # NoMap =>
        \A vid \in DOMAIN unified[1].victims :
            /\ unified[1].victims[vid].vid = vid
            /\ unified[1].victims[vid].position = InGrid(ReportsOf(vid))[1].position

\* What the code does instead: the position is that of the last report.
C19_PositionOfLastReport ==
    unified # NoMap =>
        \A vid \in DOMAIN unified[1].victims :
            LET reports == InGrid(ReportsOf(vid))
            IN unified[1].victims[vid].position = reports[Len(reports)].position

(***************************************************************************)
(* MapGrid as the ExplorerAgent fills it.                                  *)
(***************************************************************************)
\* The cells of a grid that have been classified.
Classified(grid) == {xy \in DOMAIN grid : grid[xy].status # "unknown"}

\* C20: over the record_cell, record_neighbors and record_victim calls of the
\* ExplorerAgent, a cell whose status is clear, wall or out_of_bounds stays in
\* the grid and never has status unknown again.
C20_StatusNeverUnknownAgain ==
    [][\A xy \in Classified(ex.grid) :
          /\ xy \in DOMAIN ex'.grid
          /\ ex'.grid[xy].status \in {"clear", "wall", "out_of_bounds"}]_vars

\* Witness of C20: record_victim has written to a classified cell, a wall has
\* been recorded, and cells were recorded again after their first
\* classification.
C20_Witness ==
    /\ \E xy \in Classified(ex.grid) :
          ex.grid[xy].victim_present /\ ex.grid[xy].status = "clear"
    /\ \E xy \in Classified(ex.grid) : ex.grid[xy].status = "wall"
    /\ ex.step_count >= 2
    /\ \E xy \in Classified(ex.grid) :
          ex.grid[xy].visited /\ ex.grid[xy].last_seen_step >= 2

(***************************************************************************)
(* MapGrid written by several agents: discovered_by.                       *)
(***************************************************************************)
\* C21: over the record_cell, record_neighbors and record_victim calls, with
\* non-empty agent names, a cell whose discovered_by is set keeps that value
\* in every later call, whatever agent name the call is given.
C21_DiscoveredByKept ==
    [][\A xy \in DOMAIN csv.grid :
          csv.grid[xy].discovered_by # "" =>
              /\ xy \in DOMAIN csv'.grid
              /\ csv'.grid[xy].discovered_by = csv.grid[xy].discovered_by]_vars

\* Witness of C21: a cell was written first under one agent name and later
\* under another, and carries the first.
C21_Witness ==
    \E xy \in DOMAIN csv.grid : \E i, j \in DOMAIN csv.log :
        /\ i < j
        /\ \A h \in 1..(i - 1) : xy \notin csv.log[h].cells
        /\ xy \in csv.log[i].cells /\ xy \in csv.log[j].cells
        /\ csv.log[i].agent # csv.log[j].agent
        /\ csv.grid[xy].discovered_by = csv.log[i].agent

(***************************************************************************)
(* RescuerAgent: running out of time.                                      *)
(***************************************************************************)
\* The step is a deliberate call of rescuer i.
RescCalled(i) ==
    \/ resc'[i] # resc[i]
    \/ world'.rtime[i] # world.rtime[i]
    \/ world'.active[i] # world.active[i]

\* The call of rescuer i was entered with its time below zero, or its move or
\* its aid reported TIME_EXCEEDED.
OutOfTime(i) ==
    /\ RescCalled(i)
    /\ \/ world.rtime[i] < 0
       \/ (world.rtime[i] >= 0 /\ world'.rtime[i] < 0
           /\ resc'[i].outcome = "TIME_EXCEEDED")

\* C22: when a move or an aid of a rescuer reports TIME_EXCEEDED, or its
\* deliberate is entered with remaining time below zero, that call halts the
\* agent in the DEAD state (it returns False) and changes neither its position
\* nor its set of completed victims.
C22_DeadWhenOutOfTime ==
    [][\A i \in Rescuers :
          OutOfTime(i) =>
              /\ world'.state[i] = "DEAD" /\ ~world'.active[i]
              /\ resc'[i].pos = resc[i].pos
              /\ world'.body[i] = world.body[i]
              /\ resc'[i].completed_victims = resc[i].completed_victims]_vars

\* Witness of C22: one rescuer died on an aid that ran out of time, standing on
\* the victim's cell, another on a move.
C22_Witness ==
    \E i, j \in Rescuers :
        /\ world.state[i] = "DEAD" /\ resc[i].outcome = "TIME_EXCEEDED"
        /\ resc[i].attempted = <<>> /\ resc[i].pos \in world.victims
        /\ resc[i].completed_victims = {}
        /\ world.state[j] = "DEAD" /\ resc[j].outcome = "TIME_EXCEEDED"
        /\ resc[j].attempted # <<>> /\ resc[j].pos # resc[j].attempted[1]

(***************************************************************************)
(* ExplorerAgent: the walks and the reads of one deliberate call.          *)
(***************************************************************************)
\* C23: every call of ExplorerAgent.deliberate performs at most one walk, in
\* every mode and for every outcome of that walk.
C23_AtMostOneWalk == Len(trace.walks) <= 1

\* What the code does instead: only a return step whose greedy walk was
\* refused is followed by a second walk, the fallback along the stack.
C23_SecondWalkIsTheFallback ==
    /\ Len(trace.walks) <= 2
    /\ Len(trace.walks) = 2 =>
           /\ trace.walks[1].mode = "greedy" /\ trace.walks[1].res # "EXECUTED"
           /\ trace.walks[2].mode = "fallback"

\* C24: the vital signs of a victim are read, and the read paid, only in the
\* first cycle spent on a cell; a cycle spent on a cell that is already in the
\* visited set performs no read.
C24_ReadOnlyOnFirstVisit ==
    [][(trace'.reads > 0 /\ ex.initialized) => ex.pos \notin ex.visited]_vars

\* What the code does instead: every cycle that starts on the victim's cell
\* with time left reads the signals, first visit or not.
C24_ReadOnEveryCycleOnVictim ==
    [][(ex.initialized /\ rtime >= 0 /\ body = env.victim /\ trace.ret)
          => trace'.reads = 1]_vars

\* C26: every walk(dx, dy) the agent issues has dx and dy in {-1, 0, 1}.
C26_UnitWalks ==
    \A i \in DOMAIN trace.walks :
        trace.walks[i].dx \in {-1, 0, 1} /\ trace.walks[i].dy \in {-1, 0, 1}

\* What the code guarantees: the greedy, forward and backtrack walks are unit
\* steps; only the fallback along the stack may be longer.
C26_UnitWalksButFallback ==
    \A i \in DOMAIN trace.walks :
        trace.walks[i].mode # "fallback" =>
            trace.walks[i].dx \in {-1, 0, 1} /\ trace.walks[i].dy \in {-1, 0, 1}

(***************************************************************************)
(* ExplorerAgent: the energy reserve.                                      *)
(***************************************************************************)
\* The call about to be made is in exploration mode: the agent has time left
\* and is not returning after the battery check of lines 125-128.
Exploring ==
    /\ trace.ret
    /\ LazyInit(Context).rtime >= 0
    /\ ~AtTheMove.a.returning

\* C25: in exploration mode, when the lower-bound return cost from the current
\* cell is >= the remaining time, the call performs no walk, sets returning and
\* returns True; and no forward move is attempted to a neighbour whose
\* lower-bound return cost is >= the remaining time of the moment of the move.
C25_ReserveBeforeMoving ==
    [][/\ (Exploring /\ StepCostLowerBound(AtTheMove.a.pos, BasePos) >= AtTheMove.rtime)
            => (trace'.walks = <<>> /\ ex'.returning /\ trace'.ret
                /\ state' = "ACTIVE" /\ body' = body)
       /\ \A i \in DOMAIN trace'.walks :
             trace'.walks[i].mode = "forward" =>
                 LET walk == trace'.walks[i]
                     nxt == <<walk.from[1] + walk.dx, walk.from[2] + walk.dy>>
                 IN StepCostLowerBound(nxt, BasePos)
                        < rtime' + WalkCost(walk.dx, walk.dy)]_vars

\* Witness of C25: away from the base, a call that started with more than 10%
\* of the time limit found the reserve used up, did not walk and set returning.
C25_Witness ==
    /\ ex.initialized /\ ex.pos # BasePos
    /\ 10 * trace.before >= env.tlim
    /\ rtime >= 0 /\ StepCostLowerBound(ex.pos, BasePos) >= rtime
    /\ trace.walks = <<>> /\ ex.returning /\ trace.ret

(***************************************************************************)
(* ExplorerAgent: where the forward moves go.                              *)
(***************************************************************************)
\* The directions the proximity sensor reports CLEAR from cell at.
ClearDirections(at) ==
    {AC_INCR[i] : i \in {j \in DOMAIN AC_INCR :
                            CheckWallsAndLim(env.walls, at)[j] = "CLEAR"}}

\* C27: every forward move the agent attempts targets a neighbour that the
\* proximity sensor reported CLEAR in that same cycle and that is not in the
\* visited set.
C27_ForwardToClearUnvisited ==
    [][\A i \in DOMAIN trace'.walks :
          trace'.walks[i].mode = "forward" =>
              LET walk == trace'.walks[i]
                  nxt == <<walk.from[1] + walk.dx, walk.from[2] + walk.dy>>
              IN /\ walk.from = body
                 /\ <<walk.dx, walk.dy>> \in ClearDirections(body)
                 /\ nxt \notin ex.visited /\ nxt \notin ex'.visited
                 /\ nxt # walk.from]_vars

\* Witness of C27: a forward move was made from a cell that has a wall and an
\* already visited free cell among its neighbours, to neither of them.
C27_Witness ==
    \E i \in DOMAIN trace.walks :
        LET walk == trace.walks[i]
            around == {<<walk.from[1] + d[1], walk.from[2] + d[2]>> : d \in Range(AC_INCR)}
        IN /\ walk.mode = "forward"
           /\ around \cap env.walls # {}
           /\ \E n \in around \cap ex.visited : n \notin env.walls

(***************************************************************************)
(* unify_maps: the precedence of the statuses.                             *)
(***************************************************************************)
\* The statuses from the lowest precedence to the highest.
Precedence == <<"out_of_bounds", "unknown", "clear", "wall">>

Rank(s) == CHOOSE i \in DOMAIN Precedence : Precedence[i] = s

\* The statuses the three input maps give coordinate xy.
Contributed(xy) ==
    {maps3[m][xy].status : m \in {n \in {"a", "b", "c"} : xy \in DOMAIN maps3[n]}}

\* C28: every coordinate present in at least one input map gets, in the unified
\* map, the status of highest precedence among the contributing cells under
\* wall > clear > unknown > out_of_bounds.
C28_HighestPrecedence ==
    uni # <<>> =>
        /\ DOMAIN uni[1].abc = DOMAIN maps3.a \cup DOMAIN maps3.b \cup DOMAIN maps3.c
        /\ \A xy \in DOMAIN uni[1].abc :
              /\ uni[1].abc[xy] \in Contributed(xy)
              /\ \A s \in Contributed(xy) : Rank(s) <= Rank(uni[1].abc[xy])

\* Witness of C28: a coordinate that the first map lacks was unified from a
\* cell of low precedence followed by one of higher precedence, and another
\* coordinate from a wall followed by clear cells.
C28_Witness ==
    /\ uni # <<>>
    /\ \E xy, zw \in UnifyCoords :
          /\ xy \notin DOMAIN maps3.a
          /\ xy \in DOMAIN maps3.b /\ maps3.b[xy].status = "unknown"
          /\ xy \in DOMAIN maps3.c /\ maps3.c[xy].status = "clear"
          /\ uni[1].abc[xy] = "clear"
          /\ zw \in DOMAIN maps3.a /\ maps3.a[zw].status = "wall"
          /\ zw \in DOMAIN maps3.b /\ maps3.b[zw].status = "clear"
          /\ uni[1].abc[zw] = "wall"

(***************************************************************************)
(* unify_maps: the victim fields (merge_maps.py, lines 86-87).             *)
(***************************************************************************)
\* The ids check_for_victim can return: the victims are numbered from 0.
UnifyVictimIds == {0, 1, 2}

\* The victim fields of a cell: as CellInfo() leaves them, or as record_victim
\* sets them.
VictimCells ==
    {[victim_present |-> FALSE, victim_id |-> <<>>]}
    \cup {[victim_present |-> TRUE, victim_id |-> <<v>>] : v \in UnifyVictimIds}

VictimGrids == UNION {[D -> VictimCells] : D \in SUBSET UnifyCoords}

\* cells = [g[xy] for g in maps if xy in g]
RECURSIVE ContributingCells(_, _)
ContributingCells(maps, xy) ==
    IF maps = <<>> THEN <<>>
    ELSE IF xy \in DOMAIN Head(maps)
         THEN <<Head(maps)[xy]>> \o ContributingCells(Tail(maps), xy)
         ELSE ContributingCells(Tail(maps), xy)

\* The truth value Python gives an Optional[int]: None and 0 are false.
Truthy(id) == id # <<>> /\ id[1] # 0

\* next((c.victim_id for c in cells if c.victim_id), None)
RECURSIVE FirstVictimId(_)
FirstVictimId(cells) ==
    IF cells = <<>> THEN <<>>
    ELSE IF Truthy(Head(cells).victim_id) THEN Head(cells).victim_id
         ELSE FirstVictimId(Tail(cells))

\* unify_maps(maps), projected on victim_present and victim_id.
UnifyVictimFields(maps) ==
    [xy \in AllCoords(maps) |->
        LET cells == ContributingCells(maps, xy)
        IN [victim_present |-> \E i \in DOMAIN cells : cells[i].victim_present,
            victim_id |-> FirstVictimId(cells)]]

InitUnifyVictims ==
    /\ maps3 \in [a : VictimGrids, b : VictimGrids, c : VictimGrids]
    /\ uni = <<>>
    /\ IdleMerge /\ IdleExpl /\ IdleBarr /\ IdleResc /\ IdlePath /\ IdleCsv

UnifyVictims ==
    /\ uni = <<>>
    /\ uni' = <<UnifyVictimFields(<<maps3.a, maps3.b, maps3.c>>)>>
    /\ UNCHANGED <<csvVars, maps3, mergeVars, explVars, barrVars, rescVars, pathVars>>

NextUnifyVictims == UnifyVictims

SpecUnifyVictims == InitUnifyVictims /\ [][NextUnifyVictims]_vars

\* The cells the three input maps hold at coordinate xy.
ContributingAt(xy) ==
    {maps3[m][xy] : m \in {n \in {"a", "b", "c"} : xy \in DOMAIN maps3[n]}}

\* C29: the unified cell is marked victim_present exactly when at least one
\* contributing cell marks a victim there, and it then carries the victim id
\* recorded by a contributing cell, for every id, 0 included.
C29_VictimIdCarried ==
    uni # <<>> =>
        \A xy \in DOMAIN uni[1] :
            /\ uni[1][xy].victim_present
                  = (\E c \in ContributingAt(xy) : c.victim_present)
            /\ uni[1][xy].victim_present =>
                  \E c \in ContributingAt(xy) :
                      c.victim_present /\ uni[1][xy].victim_id = c.victim_id

\* What the code does instead: the id carried is that of a contributing cell
\* only when one of them has an id other than 0; a victim whose only recorded
\* id is 0 is marked present with no id.
C29_VictimIdCarriedUnlessZero ==
    uni # <<>> =>
        \A xy \in DOMAIN uni[1] :
            /\ uni[1][xy].victim_present
                  = (\E c \in ContributingAt(xy) : c.victim_present)
            /\ IF \E c \in ContributingAt(xy) : Truthy(c.victim_id)
               THEN \E c \in ContributingAt(xy) :
                       c.victim_present /\ uni[1][xy].victim_id = c.victim_id
               ELSE uni[1][xy].victim_id = <<>>

(***************************************************************************)
(* RescuerAgent._find_path: the length of the path.                        *)
(***************************************************************************)
\* The least number of 8-adjacent steps from a cell of S to goal inside
\* allowed, counted from n; goal is reachable from S.
RECURSIVE StepsFrom(_, _, _, _)
StepsFrom(S, goal, allowed, n) ==
    IF goal \in S THEN n
    ELSE StepsFrom(S \cup {q \in allowed : \E p \in S : Adjacent8(p, q)},
                   goal, allowed, n + 1)

\* C30: when the goal is reachable from the start within visited \ obstacles,
\* the path _find_path returns has the least number of steps among all the
\* 8-adjacent paths inside visited \ obstacles.
C30_ShortestPath ==
    (fp_out # <<>> /\ Reachable(PlannableCells, fp_in.start, fp_in.goal)) =>
        /\ fp_out[1] # <<>>
        /\ Len(fp_out[1]) - 1
              = StepsFrom({fp_in.start}, fp_in.goal, PlannableCells, 0)

\* Witness of C30: a shortest path of two steps was returned from one side of
\* the grid to the other, where a path of three steps exists as well.
C30_Witness ==
    /\ fp_out # <<>>
    /\ Len(fp_out[1]) = 3
    /\ Reachable(PlannableCells, fp_in.start, fp_in.goal)
    /\ \E p, q \in PlannableCells \ Range(fp_out[1]) :
          /\ Adjacent8(fp_in.start, p) /\ Adjacent8(p, q) /\ Adjacent8(q, fp_in.goal)
          /\ p # q

(***************************************************************************)
(* RescuerAgent: the account of the victims.                               *)
(***************************************************************************)
\* C31: after any sequence of steps and replans of a rescuer, its completed and
\* unreachable victims are disjoint and no victim got more than one aid
\* action; when the agent has halted in ENDED or IDLE, every victim of its map
\* is in exactly one of the two sets.
C31_VictimsAccounted ==
    \A i \in Rescuers :
        /\ resc[i].completed_victims \cap resc[i].unreachable_victims = {}
        /\ \A m, n \in DOMAIN resc[i].aids :
              resc[i].aids[m] = resc[i].aids[n] => m = n
        /\ resc[i].completed_victims \subseteq Range(resc[i].aids)
        /\ world.state[i] \in {"ENDED", "IDLE"} =>
              \A vid \in DOMAIN WorkingMapOf(i).victims :
                  vid \in resc[i].completed_victims \cup resc[i].unreachable_victims

\* Witness of C31: a rescuer that skipped the first victim of its map when
\* planning, bumped and replanned on its way to the second one and aided it,
\* has ended at the base.
C31_Witness ==
    \E i \in Rescuers :
        /\ world.state[i] = "ENDED"
        /\ resc[i].registered # {}
        /\ resc[i].unreachable_victims = {1}
        /\ resc[i].completed_victims = {2}
        /\ resc[i].aids = <<2>>

(***************************************************************************)
(* RescuerAgent: the visited and obstacle sets of the working map.         *)
(***************************************************************************)
\* C32: when the unified map handed to the rescuers has no cell both visited
\* and obstacle, the working map of every rescuer has none after every
\* deliberate step, bumps included; its obstacles only grow and its visited
\* cells only shrink.
C32_VisitedObstaclesDisjoint ==
    /\ [](shared_map.visited \cap shared_map.obstacles = {} =>
            \A j \in Rescuers :
                WorkingMapOf(j).visited \cap WorkingMapOf(j).obstacles = {})
    /\ [][\A j \in Rescuers :
            /\ resc[j].map.value.obstacles \subseteq resc'[j].map.value.obstacles
            /\ resc'[j].map.value.visited \subseteq resc[j].map.value.visited]_vars

\* Witness of C32: a rescuer bumped on a cell that the unified map has as
\* visited; its working map has the cell as an obstacle and no longer as
\* visited.
C32_Witness ==
    \E j \in Rescuers : \E cell \in shared_map.visited :
        /\ resc[j].outcome = "BUMPED"
        /\ resc[j].attempted = <<cell>>
        /\ cell \in WorkingMapOf(j).obstacles
        /\ cell \notin WorkingMapOf(j).visited

(***************************************************************************)
(* The value deliberate returns and the state the agent sets.  One         *)
(* ExplorerAgent explores the grid whose victim is walled in, or the open  *)
(* grid under the time limit that a vital-sign read uses up; when it has   *)
(* halted the rescuers are run on theirs.                                  *)
(***************************************************************************)
Terminal == {"DEAD", "IDLE", "ENDED"}

\* The time limit under which the read of the victim beside the base leaves
\* the explorer with negative time.
ShortTlim == 2 * CostLine

InitAgents ==
    /\ env \in {s \in Scenarios :
                    \/ s.walls = EnclosingWalls
                    \/ (s.victim = NearVictimPos /\ s.tlim = ShortTlim)}
    /\ ex = NewExplorer
    /\ rtime = env.tlim
    /\ body = BasePos
    /\ state = "ACTIVE"
    /\ trace = [ret |-> TRUE, walks |-> <<>>, reads |-> 0, before |-> env.tlim]
    /\ shared_map \in SharedMapChoices
    /\ resc = [i \in Rescuers |-> NewRescuer(shared_map)]
    /\ world \in {[walls |-> w, victims |-> {<<PathW - 1, 0>>}, rtime |-> t,
                   body |-> [i \in Rescuers |-> RescBase],
                   state |-> [i \in Rescuers |-> "ACTIVE"],
                   active |-> [i \in Rescuers |-> TRUE]] :
                      w \in SUBSET HiddenWallCells, t \in [Rescuers -> RescTlims]}
    /\ IdleMerge /\ IdleBarr /\ IdleUnify /\ IdlePath /\ IdleCsv

RescueAfterExploration == ~trace.ret /\ NextRescuer

NextAgents == Deliberate \/ RescueAfterExploration

SpecAgents == InitAgents /\ [][NextAgents]_vars

\* C33: a deliberate call of ExplorerAgent or of RescuerAgent returns False
\* exactly when the call has put the agent in DEAD, IDLE or ENDED; a call that
\* returns True sets no state.
C33_FalseIffTerminal ==
    /\ [][(trace' # trace) =>
             /\ (~trace'.ret) = (state' \in Terminal)
             /\ trace'.ret => state' = state]_vars
    /\ [][\A i \in Rescuers :
             RescCalled(i) =>
                 /\ (~world'.active[i]) = (world'.state[i] \in Terminal)
                 /\ world'.active[i] => world'.state[i] = world.state[i]]_vars
    /\ [](state \in Terminal \cup {"ACTIVE"}
          /\ \A i \in Rescuers : world.state[i] \in Terminal \cup {"ACTIVE"})

\* Witness of C33: the explorer has halted, one rescuer has halted dead and the
\* other one, whose calls returned True so far, is on its way.
C33_Witness ==
    /\ ~trace.ret /\ state \in {"IDLE", "ENDED"}
    /\ \E i, j \in Rescuers :
          /\ ~world.active[i] /\ world.state[i] = "DEAD"
          /\ world.active[j] /\ world.state[j] = "ACTIVE"
          /\ resc[j].outcome = "EXECUTED"

(***************************************************************************)
(* ExplorerAgent: every run halts.  The walls of the scenarios do not      *)
(* change and walk succeeds on the cells the sensor shows clear; the       *)
(* scheduler calls deliberate again as long as it returned True.           *)
(***************************************************************************)
SpecExplorerFair == SpecExplorer /\ WF_vars(Deliberate)

\* C34: on a finite grid whose walls do not change, every run of ExplorerAgent
\* halts: after finitely many deliberate calls one call returns False, for
\* every time budget and every random choice of neighbour.
C34_ExplorerHalts == <>Halted

\* Witness of C34: a run under the ample time limit has halted after it
\* explored the grid with the wall in its centre, back at the base.
C34_Witness ==
    /\ Halted
    /\ env.tlim = AmpleTlim /\ env.walls = CentreWall
    /\ ex.visited = GridCells \ CentreWall
    /\ body = BasePos

(***************************************************************************)
(* RescuerAgent: every run halts.  The scheduler calls deliberate of every *)
(* rescuer again as long as it returned True; walls may appear meanwhile.  *)
(***************************************************************************)
SpecShiftingFair == SpecShifting /\ \A i \in Rescuers : WF_vars(RescDeliberate(i))

AllRescuersHalted == \A i \in Rescuers : ~world.active[i]

\* C35: every run of RescuerAgent halts: after finitely many deliberate calls
\* one call returns False, for every map, victim set and sequence of walk and
\* aid outcomes.
C35_RescuersHalt == <>AllRescuersHalted

\* Witness of C35: both rescuers have halted, one of them after it bumped
\* twice and replanned, with time left.
C35_Witness ==
    /\ AllRescuersHalted
    /\ \E i \in Rescuers :
          /\ Cardinality(resc[i].registered) = 2
          /\ world.rtime[i] > 0

(***************************************************************************)
(* ExplorerDFS on rough ground: a grid of RoughW x 2 cells with the base   *)
(* in its corner, walls below the base and its neighbour, and a base that  *)
(* may be hard to enter, so that the walk back into it costs more than the *)
(* walk out of it did.  One explorer runs under every time limit up to     *)
(* MaxRoughTlim; the two others have so little time that they report at    *)
(* once.                                                                   *)
(***************************************************************************)
RoughW == 3
HeavyDifficulty == 10
MaxRoughTlim == 120

RoughCells == (0..(RoughW - 1)) \X (0..1)
RoughWalls == {<<0, 1>>, <<1, 1>>}

\* The time limit under which an explorer starts its return at the first call.
NoTimeTlim == SafetyMargin

\* The ground whose base cell has the difficulty HeavyDifficulty.
HeavyBase == [xy \in RoughCells |-> IF xy = DfsBase THEN HeavyDifficulty ELSE 1]

InitRough ==
    /\ arena \in {[victim |-> v, base |-> DfsBase, difficulty |-> g, walls |-> RoughWalls,
                   active |-> [i \in Explorers |-> TRUE],
                   tlim |-> [i \in Explorers |-> IF i = k THEN t ELSE NoTimeTlim],
                   rtime |-> [i \in Explorers |-> IF i = k THEN t ELSE NoTimeTlim]] :
                      v \in {<<RoughW - 1, 0>>, <<RoughW - 1, 1>>},
                      g \in {[xy \in RoughCells |-> 1], HeavyBase},
                      k \in Explorers, t \in (NoTimeTlim + 1)..MaxRoughTlim}
    /\ MissionBuilt

SpecRough == InitRough /\ [][NextBarrier]_vars

\* The reports the coordinator holds from explorer i.
ReportsFrom(i) ==
    {n \in DOMAIN coord.explorer_reports : coord.explorer_reports[n].name = DfsName(i)}

\* C36: ExplorerDFS sends its report to the coordinator at most once, and only
\* when it stands on the base, relative position (0,0), also after a backtrack
\* or return step whose walk did not execute.
C36_ReportOnceAtBase ==
    \A i \in Explorers :
        /\ Cardinality(ReportsFrom(i)) <= 1
        /\ ReportsFrom(i) # {} => dfs[i].rel_x = 0 /\ dfs[i].rel_y = 0

\* The part of C36 that holds: no explorer reports twice, and an explorer has
\* reported exactly when finished is set.
C36_ReportOnce ==
    \A i \in Explorers :
        /\ Cardinality(ReportsFrom(i)) <= 1
        /\ ReportsFrom(i) # {} <=> dfs[i].finished

(***************************************************************************)
(* ExplorerAgent: the cells it visited and the cells it holds as obstacles. *)
(***************************************************************************)
\* C37: ExplorerAgent never records as an obstacle a cell it has visited:
\* after every deliberate call visited and obstacles_found are disjoint, for
\* every outcome of walk, in exploration and in return mode.
C37_VisitedNeverObstacle == ex.visited \cap ex.obstacles_found = {}

\* The part of C37 that holds: while the agent explores, the two sets are
\* disjoint, and no visited cell of its grid has the status wall.
C37_VisitedStaysClear ==
    /\ ex.returning \/ ex.visited \cap ex.obstacles_found = {}
    /\ \A xy \in ex.visited \cap DOMAIN ex.grid : ex.grid[xy].status # "wall"

(***************************************************************************)
(* MissionCoordinator._finalize_reports on reports that disagree.          *)
(* receive_report is called once per explorer; every report lists, by      *)
(* victim id, the victims that explorer found, each with the triage class  *)
(* and the survival estimate its models predicted.                         *)
(***************************************************************************)
\* The triage classes range over 1..MaxTri.
MaxTri == 2

\* The victim ids of the scenario and the survival estimates.
FinalizeVids == {0, 1}
FinalizeSobrs == {1, 2}

\* The victim lists an explorer may report: each victim of the scenario is
\* absent or listed once, at the cell where it lies.
ReportLists ==
    UNION {[ids -> [tri : 1..MaxTri, sobr : FinalizeSobrs]] :
              ids \in SUBSET FinalizeVids}

ReportedVictims(found) ==
    [vid \in DOMAIN found |->
        [id |-> vid, position |-> <<vid, 0>>, tri |-> found[vid].tri,
         sobr |-> found[vid].sobr]]

\* arena.pending[i] is what explorer i will report; the coordinator and the
\* master are new.
InitFinalize ==
    /\ arena \in {[pending |-> p, next |-> 1] : p \in [Explorers -> ReportLists]}
    /\ coord = [total_explorers |-> TotalExplorers, explorer_reports |-> <<>>,
                explorer_names |-> [i \in Explorers |-> DfsName(i)],
                master |-> TRUE, global_map |-> <<>>, metrics |-> <<>>,
                finalized |-> 0]
    /\ master = [ready |-> FALSE, global_map |-> <<>>, victims |-> <<>>,
                 metrics |-> <<>>, state |-> "IDLE", prepared |-> 0]
    /\ dfs = Idle /\ workers = Idle /\ mission = Idle
    /\ IdleMerge /\ IdleExpl /\ IdleResc /\ IdleUnify /\ IdlePath /\ IdleCsv

\* The next explorer calls coordinator.receive_report with its victims.
FileReport ==
    /\ arena.next <= TotalExplorers
    /\ \E r \in {ReceiveReport([coord |-> coord, master |-> master],
                                DfsName(arena.next), <<>>,
                                ReportedVictims(arena.pending[arena.next]),
                                DOMAIN arena.pending[arena.next])} :
          /\ coord' = r.coord
          /\ master' = r.master
    /\ arena' = [arena EXCEPT !.next = @ + 1]
    /\ UNCHANGED <<dfs, workers, mission, local_maps, unified, env, ex, rtime,
                   body, state, trace, shared_map, resc, world, maps3, uni,
                   fp_in, fp_out, csv>>

NextFinalize == FileReport

SpecFinalize == InitFinalize /\ [][NextFinalize]_vars

\* The reports, by arrival index, that list victim vid.
ReportsListing(vid) ==
    {n \in DOMAIN coord.explorer_reports :
        vid \in DOMAIN coord.explorer_reports[n].victims}

\* The earliest report among those that give vid its highest triage class.
BestReport(vid) ==
    CHOOSE n \in ReportsListing(vid) :
        \A k \in ReportsListing(vid) :
            \/ coord.explorer_reports[k].victims[vid].tri
                  < coord.explorer_reports[n].victims[vid].tri
            \/ /\ coord.explorer_reports[k].victims[vid].tri
                    = coord.explorer_reports[n].victims[vid].tri
               /\ n <= k

\* C38: once the coordinator has finalized, the victims handed to the master
\* have one entry for each victim id some explorer reported and no other, and
\* the entry of an id is the report of it with the highest triage class, the
\* earliest such report when several share that class.
C38_AggregatedVictims ==
    master.prepared > 0 =>
        /\ DOMAIN master.victims
              = UNION {DOMAIN coord.explorer_reports[n].victims :
                          n \in DOMAIN coord.explorer_reports}
        /\ \A vid \in DOMAIN master.victims :
              master.victims[vid]
                = coord.explorer_reports[BestReport(vid)].victims[vid]

\* The coordinator has finalized reports in which one victim's highest class
\* is given by the second and the third report with different survival
\* estimates, and another victim's class is lower in a later report.
C38_Witness ==
    /\ master.prepared > 0
    /\ Len(coord.explorer_reports) = TotalExplorers
    /\ \E vid \in DOMAIN master.victims :
          /\ ReportsListing(vid) = {1, 2, 3}
          /\ coord.explorer_reports[1].victims[vid].tri
                < coord.explorer_reports[2].victims[vid].tri
          /\ coord.explorer_reports[2].victims[vid].tri
                = coord.explorer_reports[3].victims[vid].tri
          /\ coord.explorer_reports[2].victims[vid].sobr
                # coord.explorer_reports[3].victims[vid].sobr
          /\ master.victims[vid] = coord.explorer_reports[2].victims[vid]
    /\ \E vid \in DOMAIN master.victims :
          /\ ReportsListing(vid) = {1, 3}
          /\ coord.explorer_reports[1].victims[vid].tri
                > coord.explorer_reports[3].victims[vid].tri

(***************************************************************************)
(* ExplorerAgent: the stack of the depth-first search.                     *)
(***************************************************************************)
\* C39: while ExplorerAgent is initialized and not returning, after every
\* deliberate call its stack is non-empty, starts at the base, ends at the
\* agent's current position, and every two consecutive entries are
\* 8-adjacent cells.
C39_StackIsPath ==
    ex.initialized /\ ~ex.returning =>
        /\ ex.stack # <<>>
        /\ ex.stack[1] = ex.base
        /\ ex.stack[Len(ex.stack)] = ex.pos
        /\ \A k \in 1..(Len(ex.stack) - 1) : Adjacent8(ex.stack[k], ex.stack[k + 1])

\* The agent, still exploring, has gone three cells deep and stepped back: a
\* backtrack walk has executed and the stack still holds two cells.
C39_Witness ==
    /\ ex.initialized /\ ~ex.returning
    /\ Len(ex.stack) = 2
    /\ Cardinality(ex.visited) >= 3
    /\ trace.walks # <<>>
    /\ trace.walks[Len(trace.walks)].mode = "backtrack"
    /\ trace.walks[Len(trace.walks)].res = "EXECUTED"

(***************************************************************************)
(* ExplorerDFS: walk_history, path_stack and accumulated_return_cost.      *)
(***************************************************************************)
\* The sum of component k of the entries (dx, dy, cost) of a walk history.
RECURSIVE SumOf(_, _)
SumOf(history, k) ==
    IF history = <<>> THEN 0
    ELSE history[1][k] + SumOf(Tail(history), k)

\* C40: after every ExplorerDFS.deliberate call, for every outcome of walk,
\* the relative position is the sum of the displacements in walk_history,
\* path_stack has one entry more than walk_history, and
\* accumulated_return_cost is the sum of the costs in walk_history.
C40_HistoryMatchesPosition ==
    \A i \in Explorers :
        /\ dfs[i].rel_x = SumOf(dfs[i].walk_history, 1)
        /\ dfs[i].rel_y = SumOf(dfs[i].walk_history, 2)
        /\ Len(dfs[i].path_stack) = Len(dfs[i].walk_history) + 1
        /\ dfs[i].accumulated_return_cost = SumOf(dfs[i].walk_history, 3)

\* The part of C40 that holds: path_stack has one entry more than
\* walk_history, accumulated_return_cost is the sum of the stored costs, and
\* the last entry of path_stack is the sum of the stored displacements.
C40_StackAndCost ==
    \A i \in Explorers :
        /\ Len(dfs[i].path_stack) = Len(dfs[i].walk_history) + 1
        /\ dfs[i].accumulated_return_cost = SumOf(dfs[i].walk_history, 3)
        /\ dfs[i].path_stack[Len(dfs[i].path_stack)]
              = <<SumOf(dfs[i].walk_history, 1), SumOf(dfs[i].walk_history, 2)>>

====
